---- MODULE Spec2Model ----
(***************************************************************************)
(* State-machine model of the IRC server in crates/irc_server: the shared  *)
(* registry (ServerState), the per-connection session (UserState), the     *)
(* channel objects (IrcChannel) with their tokio broadcast sender, and the *)
(* reader / writer tasks of every connection.                              *)
(*                                                                         *)
(* Granularity.  Reader and writer tasks of all connections run on a       *)
(* work-stealing executor, so two handlers interleave between any two      *)
(* operations on the shared maps.  One action is one operation on shared   *)
(* state (a DashMap / DashSet call, a broadcast send, a queue send to      *)
(* another connection) together with the session-local code around it.     *)
(***************************************************************************)
EXTENDS Integers, Sequences, FiniteSets, TLC

\* ---------------------------------------------------------------- bounds
NumClients == 3
NumNicks == 3
NumChans == 2
MaxObjs == 3
MaxCmds == 4
MaxActiveCmds == 3
NumTalkers == 2
MaxTalkCmds == 2
NumKeys == 2
MaxLimit == 2
MaxJoinCmds == 2
MaxCreateCmds == 3
MaxPartCmds == 4
MaxNickCmds == 3
MaxModeCmds == 2
MaxModeGroups == 2
MaxModeFlags == 2
MaxFloodCmds == 33
MaxQuitCmds == 2
MaxPingLen == 7
MaxNickLen == 4
MaxNickPad == 6
MaxGuardCmds == 2
MaxModeDigits == 3
MaxPrivmsgCmds == 2
MaxTargets == 2

\* ------------------------------------------------------ program constants
OUTBOUND_CHANNEL_SIZE == 32
CONTROL_CHANNEL_SIZE == 4
AGGREGATED_CHANNEL_SIZE == 100
BROADCAST_CAPACITY == 5000
IRC_SERVER_CAP_ECHO_MESSAGE == FALSE

Clients == 1..NumClients
Nicks == 1..NumNicks
ChanNames == 1..NumChans
Objs == 1..MaxObjs
NoClient == 0
NoNick == 0
NoObj == 0

VARIABLES
    \* ServerState
    users,        \* keys of ServerState.users
    nick,         \* ServerState.nick : Nickname -> ClientId (NoClient = absent)
    channels,     \* ServerState.channels : ChannelName -> channel object (NoObj = absent)
    \* User (behind UserState.user)
    user_nick,    \* User.nick (NoNick = None)
    user_user,    \* User.user is Some
    user_modes,   \* User.modes
    registered,   \* User.registered
    member_of,    \* User.member_of
    \* IrcChannel objects (Arc<IrcChannel>), by allocation number
    next_obj,     \* number of channel objects created so far
    obj_name,     \* IrcChannel.name
    members,      \* IrcChannel.members
    operators,    \* IrcChannel.operators
    modes,        \* IrcChannel.modes
    rx,           \* broadcast receivers of IrcChannel.tx: rx[i][o] is the backlog
                  \* of the receiver client i obtained from object o (<<>> if none)
    has_rx,       \* has_rx[i] = objects for which client i holds a live receiver
    sent,         \* history: every message handed to a channel's tx, with the
                  \* object and its members at that moment
    \* per-connection tasks and queues
    pc,           \* position of the reader task
    loc,          \* locals of the handler the reader task is running
    outbound,     \* mpsc tx_outbound -> rx_outbound
    control,      \* mpsc tx_control -> rx_control
    status_q,     \* mpsc tx_status -> rx_status : Leaving was sent
    writer_up,    \* the writer task is still in its loop
    tasks,        \* objects for which the writer spawned a forwarder task
    aggregated,   \* mpsc tx_aggregated -> rx_aggregated
    written,      \* lines written to the socket, in order
    \* bookkeeping
    ncmd,         \* number of command lines the connections may still send
    line,         \* the line the reader task holds in its buffer (<<>> once cleared)
    guards        \* guards[i] = lock guards and map-entry guards the handler of
                  \* connection i holds from one step to the next

vars == << users, nick, channels, user_nick, user_user, user_modes, registered,
           member_of,
           next_obj, obj_name, members, operators, modes, rx, has_rx, sent,
           pc, loc, outbound, control, status_q, writer_up, tasks, aggregated,
           written, ncmd, line, guards >>

regVars == << users, nick, channels >>
userVars == << user_nick, user_user, user_modes, registered, member_of >>
chanVars == << next_obj, obj_name, members, operators, modes >>
rxVars == << rx, has_rx, sent >>
writerVars == << control, status_q, writer_up, tasks, aggregated, written >>

\* ---------------------------------------------------------------- messages
\* A line, reduced to what the handlers put in it: its kind, the connection it
\* is about (src), the channel name it names (chan) and, for PRIVMSG, a
\* serial number that tells two messages apart.
Msg(kind, src, chan, n) == [kind |-> kind, src |-> src, chan |-> chan, n |-> n]

\* An Option is the empty set (None) or a one-element set (Some)
None == {}

Some(x) == {x}

\* ChannelModes::default, with the fields handle_join reads
ChannelModes_default ==
    [invite_only |-> FALSE, key |-> None, user_limit |-> None, ban_list |-> {},
     except_list |-> {}, invite_exceptions |-> {}]

NoLoc == [n |-> NoNick, old |-> NoNick, c |-> 0, o |-> NoObj, is_new |-> FALSE,
          todo |-> {}]

\* mpsc::Sender::send on tx_outbound of connection j: completes when there is
\* room, fails at once (the result is dropped with `let _ =`) when the writer
\* task has returned and dropped the receiver.
CanSend(j) == ~writer_up[j] \/ Len(outbound[j]) < OUTBOUND_CHANNEL_SIZE

Enqueue(q, j, m) == IF writer_up[j] THEN [q EXCEPT ![j] = Append(@, m)] ELSE q

\* ---------------------------------------------------------------- Init
Init ==
    /\ users = {}
    /\ nick = [n \in Nicks |-> NoClient]
    /\ channels = [c \in ChanNames |-> NoObj]
    /\ user_nick = [i \in Clients |-> NoNick]
    /\ user_user = [i \in Clients |-> FALSE]
    /\ user_modes = [i \in Clients |-> {}]
    /\ registered = [i \in Clients |-> FALSE]
    /\ member_of = [i \in Clients |-> {}]
    /\ next_obj = 0
    /\ obj_name = [o \in Objs |-> 0]
    /\ members = [o \in Objs |-> {}]
    /\ operators = [o \in Objs |-> {}]
    /\ modes = [o \in Objs |-> ChannelModes_default]
    /\ rx = [i \in Clients |-> [o \in Objs |-> << >>]]
    /\ has_rx = [i \in Clients |-> {}]
    /\ sent = {}
    /\ pc = [i \in Clients |-> "none"]
    /\ loc = [i \in Clients |-> NoLoc]
    /\ outbound = [i \in Clients |-> << >>]
    /\ control = [i \in Clients |-> << >>]
    /\ status_q = [i \in Clients |-> FALSE]
    /\ writer_up = [i \in Clients |-> FALSE]
    /\ tasks = [i \in Clients |-> {}]
    /\ aggregated = [i \in Clients |-> << >>]
    /\ written = [i \in Clients |-> << >>]
    /\ ncmd = MaxCmds
    /\ line = [i \in Clients |-> << >>]
    /\ guards = [i \in Clients |-> {}]

\* ------------------------------------------------------------ handle_client
\* User::new draws the id from NEXT_USER_ID (1, 2, ...); add_connecting_user
\* puts the session in `users` (its nick is still None); the two tasks start.
handle_client(i) ==
    /\ pc[i] = "none"
    /\ \A j \in Clients : j < i => pc[j] # "none"
    /\ users' = users \cup {i}
    /\ pc' = [pc EXCEPT ![i] = "idle"]
    /\ writer_up' = [writer_up EXCEPT ![i] = TRUE]
    /\ UNCHANGED << nick, channels, userVars, chanVars, rxVars, loc, outbound,
                    control, status_q, tasks, aggregated, written, ncmd, line, guards >>

\* The reader task has read one more line.
ReadLine(i) ==
    /\ pc[i] = "idle"
    /\ ncmd > 0
    /\ ncmd' = ncmd - 1
    /\ UNCHANGED << line, guards >>

\* ServerState::add_connecting_user
add_connecting_user_nick(i, n) ==
    IF n # NoNick THEN [nick EXCEPT ![n] = i] ELSE nick

\* UserState::is_registered, once nick and user have the given values
is_registered(i, n, u) == registered[i] \/ (n # NoNick /\ u)

\* -------------------------------------------------------------------- NICK
\* Faulty variant of NickCheck: nick_already_exists is not looked at
NickCheck_CollisionIgnored(i, n) ==
    /\ ReadLine(i)
    /\ pc' = [pc EXCEPT ![i] = "nick_set"]
    /\ loc' = [loc EXCEPT ![i] = [NoLoc EXCEPT !.n = n]]
    /\ UNCHANGED << regVars, userVars, chanVars, rxVars, outbound, writerVars >>

\* handle_nick_registration, up to the test of nick_already_exists
NickCheck(i, n) ==
    /\ ReadLine(i)
    /\ IF nick[n] # NoClient
         THEN /\ CanSend(i)
              /\ outbound' = Enqueue(outbound, i, Msg("433", i, 0, n))
              /\ UNCHANGED << pc, loc >>
         ELSE /\ pc' = [pc EXCEPT ![i] = "nick_set"]
              /\ loc' = [loc EXCEPT ![i] = [NoLoc EXCEPT !.n = n]]
              /\ UNCHANGED outbound
    /\ UNCHANGED << regVars, userVars, chanVars, rxVars, writerVars >>

\* with_nick, is_registered and then: update_nick up to nick.remove(old_nick),
\* or when_registered, or nothing
NickSet(i) ==
    /\ pc[i] = "nick_set"
    /\ LET n == loc[i].n
           old == user_nick[i]
           reg == is_registered(i, n, user_user[i])
       IN /\ user_nick' = [user_nick EXCEPT ![i] = n]
          /\ registered' = [registered EXCEPT ![i] = reg]
          /\ IF old # NoNick /\ reg
               THEN /\ nick' = [nick EXCEPT ![old] = NoClient]
                    /\ pc' = [pc EXCEPT ![i] = "nick_insert"]
                    /\ loc' = [loc EXCEPT ![i].old = old]
                    /\ UNCHANGED << users, outbound >>
               ELSE IF reg
               THEN /\ CanSend(i)
                    /\ nick' = add_connecting_user_nick(i, n)
                    /\ users' = users \cup {i}
                    /\ outbound' = Enqueue(outbound, i, Msg("001", i, 0, n))
                    /\ pc' = [pc EXCEPT ![i] = "idle"]
                    /\ loc' = [loc EXCEPT ![i] = NoLoc]
               ELSE /\ pc' = [pc EXCEPT ![i] = "idle"]
                    /\ loc' = [loc EXCEPT ![i] = NoLoc]
                    /\ UNCHANGED << users, nick, outbound >>
    /\ UNCHANGED << channels, user_user, user_modes, member_of, chanVars, rxVars,
                    writerVars, ncmd, line, guards >>

\* ServerState::handle_nick_change, second statement
NickInsert(i) ==
    /\ pc[i] = "nick_insert"
    /\ nick' = [nick EXCEPT ![loc[i].n] = i]
    /\ pc' = [pc EXCEPT ![i] = "nick_relay"]
    /\ UNCHANGED << users, channels, userVars, chanVars, rxVars, loc, outbound,
                    writerVars, ncmd, line, guards >>

\* ServerState::get_unique_neighboors: the members of the registry's channels
\* of the given names, without the excluded id
get_unique_neighboors(names, exclude_id) ==
    { j \in Clients : /\ j # exclude_id
                      /\ \E c \in names : /\ channels[c] # NoObj
                                          /\ j \in members[channels[c]] }

\* ServerState::broadcast_to_neighbors: one send to tx_outbound of every
\* neighbour that is still in `users`
broadcast_to_neighbors(names, m, exclude_id) ==
    [j \in Clients |->
        IF j \in get_unique_neighboors(names, exclude_id) /\ j \in users
          THEN Enqueue(outbound, j, m)[j]
          ELSE outbound[j]]

NeighboursCanReceive(names, exclude_id) ==
    \A j \in get_unique_neighboors(names, exclude_id) : j \in users => CanSend(j)

\* update_nick after handle_nick_change: the NICK relay, with exclude_id None
NickRelay(i) ==
    /\ pc[i] = "nick_relay"
    /\ NeighboursCanReceive(member_of[i], NoClient)
    /\ outbound' = broadcast_to_neighbors(member_of[i],
                       Msg("NICK", i, loc[i].old, loc[i].n), NoClient)
    /\ pc' = [pc EXCEPT ![i] = "idle"]
    /\ loc' = [loc EXCEPT ![i] = NoLoc]
    /\ UNCHANGED << regVars, userVars, chanVars, rxVars, writerVars, ncmd, line, guards >>

\* -------------------------------------------------------------------- USER
\* The bits of the USER mode parameter that with_user looks at
MODE_WALLOPS == 4

MODE_INVISIBLE == 8

HasBit(mode, bit) == (mode \div bit) % 2 = 1

\* Faulty variant of parse_basic_user_mode: 'w' is read from bit 1
parse_basic_user_mode_WallopsBit1(mode) ==
    (IF HasBit(mode, 2) THEN {"w"} ELSE {})
        \cup (IF HasBit(mode, MODE_INVISIBLE) THEN {"i"} ELSE {})

\* UserState::parse_basic_user_mode
parse_basic_user_mode(mode) ==
    (IF HasBit(mode, MODE_WALLOPS) THEN {"w"} ELSE {})
        \cup (IF HasBit(mode, MODE_INVISIBLE) THEN {"i"} ELSE {})

\* handle_user_registration: with_user, is_registered, when_registered
handle_user_registration(i, mode) ==
    /\ user_user' = [user_user EXCEPT ![i] = TRUE]
    /\ user_modes' = [user_modes EXCEPT ![i] = parse_basic_user_mode(mode)]
    /\ LET reg == is_registered(i, user_nick[i], TRUE)
       IN /\ registered' = [registered EXCEPT ![i] = reg]
          /\ IF reg
               THEN /\ CanSend(i)
                    /\ nick' = add_connecting_user_nick(i, user_nick[i])
                    /\ users' = users \cup {i}
                    /\ outbound' = Enqueue(outbound, i, Msg("001", i, 0, user_nick[i]))
               ELSE UNCHANGED << users, nick, outbound >>
    /\ UNCHANGED << channels, user_nick, member_of, chanVars, rxVars, writerVars >>

\* A USER line with the given mode, read and handled
UserWithMode(i, mode) ==
    /\ ReadLine(i)
    /\ handle_user_registration(i, mode)
    /\ UNCHANGED << pc, loc >>

\* USER with mode 0 (USER <user> 0 <unused> :<realname>)
User(i) == UserWithMode(i, 0)

\* -------------------------------------------------------------------- JOIN
\* IrcChannel::broadcast_message: tx.send hands the message to every live
\* receiver of the object; a receiver whose backlog is full loses its oldest
\* message (RecvError::Lagged)
Sent(o, m) == [m |-> m, o |-> o, mem |-> members[o]]

broadcast_message(o, m) ==
    [j \in Clients |->
        IF o \in has_rx[j]
          THEN [rx[j] EXCEPT ![o] =
                   IF Len(@) >= BROADCAST_CAPACITY THEN Append(Tail(@), m)
                                                   ELSE Append(@, m)]
          ELSE rx[j]]

\* Faulty variant of handle_join_checks: the supplied key is compared with the
\* channel's key also when the channel has none
handle_join_checks_KeyAlwaysCompared(o, client_id, key, is_invited) ==
    LET m == modes[o]
    IN IF m.user_limit # None
          /\ \E l \in m.user_limit : Cardinality(members[o]) >= l
         THEN "ChannelIsFull"
       ELSE IF client_id \in m.ban_list /\ client_id \notin m.except_list
         THEN "BannedFromChan"
       ELSE IF m.invite_only /\ ~is_invited /\ client_id \notin m.invite_exceptions
         THEN "InviteOnlyChan"
       ELSE IF m.key # key
         THEN "BadChannelKey"
       ELSE "Pass"

\* ServerState::handle_join, the checks made under modes.read(): the status
\* returned by the first check that fails, "Pass" when none does
handle_join_checks(o, client_id, key, is_invited) ==
    LET m == modes[o]
    IN IF m.user_limit # None
          /\ \E l \in m.user_limit : Cardinality(members[o]) >= l
         THEN "ChannelIsFull"
       ELSE IF client_id \in m.ban_list /\ client_id \notin m.except_list
         THEN "BannedFromChan"
       ELSE IF m.invite_only /\ ~is_invited /\ client_id \notin m.invite_exceptions
         THEN "InviteOnlyChan"
       ELSE IF m.key # None /\ m.key # key
         THEN "BadChannelKey"
       ELSE "Pass"

\* Faulty variant of JoinErrorNumeric: a full channel is answered with the
\* numeric of an invite-only channel
JoinErrorNumeric_FullAsInviteOnly(status) ==
    CASE status = "ChannelIsFull" -> "473"
      [] status = "BannedFromChan" -> "474"
      [] status = "InviteOnlyChan" -> "473"
      [] status = "BadChannelKey" -> "475"

\* handle_join_channel: the numeric sent for a status of handle_join
JoinErrorNumeric(status) ==
    CASE status = "ChannelIsFull" -> "471"
      [] status = "BannedFromChan" -> "474"
      [] status = "InviteOnlyChan" -> "473"
      [] status = "BadChannelKey" -> "475"

\* handle_join_channel for one channel name and key, up to the checks of
\* ServerState::handle_join: get_or_create_channel, then the mode checks
\* (handle_join_channel always passes is_invited = false)
JoinStart(i, c, key) ==
    /\ ReadLine(i)
    /\ IF ~registered[i]
         THEN /\ CanSend(i)
              /\ outbound' = Enqueue(outbound, i, Msg("451", i, c, 0))
              /\ UNCHANGED << channels, next_obj, obj_name, pc, loc >>
         ELSE /\ channels[c] = NoObj => next_obj < MaxObjs
              /\ LET is_new == channels[c] = NoObj
                     o == IF is_new THEN next_obj + 1 ELSE channels[c]
                     status == handle_join_checks(o, i, key, FALSE)
                 IN /\ IF is_new
                          THEN /\ next_obj' = next_obj + 1
                               /\ channels' = [channels EXCEPT ![c] = o]
                               /\ obj_name' = [obj_name EXCEPT ![o] = c]
                          ELSE UNCHANGED << channels, next_obj, obj_name >>
                    /\ IF status = "Pass"
                          THEN /\ pc' = [pc EXCEPT ![i] = "join_add"]
                               /\ loc' = [loc EXCEPT ![i] =
                                      [NoLoc EXCEPT !.c = c, !.o = o, !.is_new = is_new]]
                               /\ UNCHANGED outbound
                          ELSE /\ CanSend(i)
                               /\ outbound' = Enqueue(outbound, i,
                                                  Msg(JoinErrorNumeric(status), i, c, 0))
                               /\ UNCHANGED << pc, loc >>
    /\ UNCHANGED << users, nick, userVars, members, operators, modes, rxVars,
                    writerVars >>

\* JOIN without a key
JoinGetOrCreate(i, c) == JoinStart(i, c, None)

\* Faulty variant of JoinAdd: the result of add_member is not looked at
JoinAdd_IgnoresAlreadyMember(i) ==
    /\ pc[i] = "join_add"
    /\ members' = [members EXCEPT ![loc[i].o] = @ \cup {i}]
    /\ operators' = IF loc[i].is_new
                       THEN [operators EXCEPT ![loc[i].o] = @ \cup {i}]
                       ELSE operators
    /\ pc' = [pc EXCEPT ![i] = "join_sub"]
    /\ UNCHANGED << regVars, userVars, next_obj, obj_name, modes, rxVars, loc,
                    outbound, writerVars, ncmd, line, guards >>

\* Faulty variant of JoinAdd: every new member is made operator
JoinAdd_EveryJoinerOperator(i) ==
    /\ pc[i] = "join_add"
    /\ LET o == loc[i].o
       IN IF i \in members[o]
            THEN /\ pc' = [pc EXCEPT ![i] = "idle"]
                 /\ loc' = [loc EXCEPT ![i] = NoLoc]
                 /\ UNCHANGED << members, operators >>
            ELSE /\ members' = [members EXCEPT ![o] = @ \cup {i}]
                 /\ operators' = [operators EXCEPT ![o] = @ \cup {i}]
                 /\ pc' = [pc EXCEPT ![i] = "join_sub"]
                 /\ UNCHANGED loc
    /\ UNCHANGED << regVars, userVars, next_obj, obj_name, modes, rxVars, outbound,
                    writerVars, ncmd, line, guards >>

\* ServerState::handle_join after the mode checks: add_member, add_operator
JoinAdd(i) ==
    /\ pc[i] = "join_add"
    /\ LET o == loc[i].o
       IN IF i \in members[o]
            THEN /\ pc' = [pc EXCEPT ![i] = "idle"]
                 /\ loc' = [loc EXCEPT ![i] = NoLoc]
                 /\ UNCHANGED << members, operators >>
            ELSE /\ members' = [members EXCEPT ![o] = @ \cup {i}]
                 /\ operators' = IF loc[i].is_new
                                   THEN [operators EXCEPT ![o] = @ \cup {i}]
                                   ELSE operators
                 /\ pc' = [pc EXCEPT ![i] = "join_sub"]
                 /\ UNCHANGED loc
    /\ UNCHANGED << regVars, userVars, next_obj, obj_name, modes, rxVars, outbound,
                    writerVars, ncmd, line, guards >>

\* handle_join_channel, NewJoin: channel.subscribe() and the Subscribe control
\* message to the connection's own writer
JoinSubscribe(i) ==
    /\ pc[i] = "join_sub"
    /\ LET o == loc[i].o
       IN IF writer_up[i]
            THEN /\ Len(control[i]) < CONTROL_CHANNEL_SIZE
                 /\ has_rx' = [has_rx EXCEPT ![i] = @ \cup {o}]
                 /\ control' = [control EXCEPT ![i] = Append(@, o)]
            ELSE UNCHANGED << has_rx, control >>
    /\ pc' = [pc EXCEPT ![i] = "join_relay"]
    /\ UNCHANGED << regVars, userVars, chanVars, rx, sent, loc, outbound, status_q,
                    writer_up, tasks, aggregated, written, ncmd, line, guards >>

\* handle_join_channel, NewJoin: the JOIN relay on the channel's broadcast,
\* RPL_NOTOPIC, RPL_NAMREPLY and RPL_ENDOFNAMES to the joiner, join_channel
JoinRelay(i) ==
    /\ pc[i] = "join_relay"
    /\ CanSend(i)
    /\ LET o == loc[i].o
           c == loc[i].c
       IN /\ rx' = broadcast_message(o, Msg("JOIN", i, c, 0))
          /\ sent' = sent \cup {Sent(o, Msg("JOIN", i, c, 0))}
          /\ outbound' = Enqueue(Enqueue(Enqueue(outbound,
                             i, Msg("331", i, c, 0)),
                             i, Msg("353", i, c, 0)),
                             i, Msg("366", i, c, 0))
          /\ member_of' = [member_of EXCEPT ![i] = @ \cup {c}]
    /\ pc' = [pc EXCEPT ![i] = "idle"]
    /\ loc' = [loc EXCEPT ![i] = NoLoc]
    /\ UNCHANGED << regVars, user_nick, user_user, user_modes, registered,
                    chanVars, has_rx,
                    writerVars, ncmd, line, guards >>

\* ----------------------------------------------------------------- PRIVMSG
\* handle_privmsg, target MessageTo::ChannelName.  caracs.nick.unwrap() and
\* caracs.user.unwrap() panic for a session without nick or user: the reader
\* task ends there.  The message carries its sender (new_with_sender).
PrivmsgChannel(i, c) ==
    /\ ReadLine(i)
    /\ IF user_nick[i] = NoNick \/ ~user_user[i]
         THEN /\ pc' = [pc EXCEPT ![i] = "dead"]
              /\ UNCHANGED << rx, sent >>
         ELSE /\ IF channels[c] # NoObj
                   THEN /\ rx' = broadcast_message(channels[c],
                                                   Msg("PRIVMSG", i, c, ncmd))
                        /\ sent' = sent \cup
                                     {Sent(channels[c], Msg("PRIVMSG", i, c, ncmd))}
                   ELSE UNCHANGED << rx, sent >>
              /\ UNCHANGED pc
    /\ UNCHANGED << regVars, userVars, chanVars, has_rx, loc, outbound, writerVars >>

\* handle_privmsg, target MessageTo::Nickname: get_user_state_from_nick, then
\* a send to the destination's tx_outbound
PrivmsgNick(i, n) ==
    /\ ReadLine(i)
    /\ IF user_nick[i] = NoNick \/ ~user_user[i]
         THEN /\ pc' = [pc EXCEPT ![i] = "dead"]
              /\ UNCHANGED outbound
         ELSE /\ IF nick[n] # NoClient /\ nick[n] \in users
                   THEN /\ CanSend(nick[n])
                        /\ outbound' = Enqueue(outbound, nick[n],
                                               Msg("PRIVMSG_NICK", i, n, ncmd))
                   ELSE UNCHANGED outbound
              /\ UNCHANGED pc
    /\ UNCHANGED << regVars, userVars, chanVars, rxVars, loc, writerVars >>

\* -------------------------------------------------------------------- QUIT
\* handle_quit_registration -> ServerState::handle_quit: users.remove, then
\* get_caracs and the format! whose unwrap()s panic for a session without
\* nick or user
QuitRemoveUser(i) ==
    /\ ReadLine(i)
    /\ users' = users \ {i}
    /\ IF i \notin users
         THEN /\ pc' = [pc EXCEPT ![i] = "quit_loop"]
              /\ loc' = [loc EXCEPT ![i] = NoLoc]
         ELSE IF user_nick[i] = NoNick \/ ~user_user[i]
         THEN /\ pc' = [pc EXCEPT ![i] = "dead"]
              /\ UNCHANGED loc
         ELSE /\ pc' = [pc EXCEPT ![i] = "quit_bcast"]
              /\ UNCHANGED loc
    /\ UNCHANGED << nick, channels, userVars, chanVars, rxVars, outbound, writerVars >>

\* handle_quit: broadcast_to_neighbors(&caracs.member_of, quit, Some(client_id))
QuitBroadcast(i) ==
    /\ pc[i] = "quit_bcast"
    /\ NeighboursCanReceive(member_of[i], i)
    /\ outbound' = broadcast_to_neighbors(member_of[i], Msg("QUIT", i, 0, 0), i)
    /\ pc' = [pc EXCEPT ![i] = "quit_loop"]
    /\ loc' = [loc EXCEPT ![i] = [NoLoc EXCEPT !.todo = member_of[i]]]
    /\ UNCHANGED << regVars, userVars, chanVars, rxVars, writerVars, ncmd, line, guards >>

\* IrcChannel::remove_member
remove_member(o, i) == [members EXCEPT ![o] = @ \ {i}]

\* handle_quit, loop body: channels.get(channel_name) and remove_member
QuitRemoveMember(i, c) ==
    /\ pc[i] = "quit_loop"
    /\ c \in loc[i].todo
    /\ IF channels[c] = NoObj
         THEN /\ loc' = [loc EXCEPT ![i].todo = @ \ {c}]
              /\ UNCHANGED << pc, members >>
         ELSE /\ members' = remove_member(channels[c], i)
              /\ loc' = [loc EXCEPT ![i].c = c, ![i].o = channels[c]]
              /\ pc' = [pc EXCEPT ![i] = "quit_chk"]
    /\ UNCHANGED << regVars, userVars, next_obj, obj_name, operators, modes, rxVars,
                    outbound, writerVars, ncmd, line, guards >>

\* Faulty variant of QuitCheckEmpty: the emptiness test always answers "not empty"
QuitCheckEmpty_NeverEmpty(i) ==
    /\ pc[i] = "quit_chk"
    /\ pc' = [pc EXCEPT ![i] = "quit_loop"]
    /\ loc' = [loc EXCEPT ![i].todo = @ \ {loc[i].c}, ![i].c = 0, ![i].o = NoObj]
    /\ UNCHANGED << regVars, userVars, chanVars, rxVars, outbound, writerVars, ncmd, line, guards >>

\* handle_quit, loop body: channel.members.is_empty()
QuitCheckEmpty(i) ==
    /\ pc[i] = "quit_chk"
    /\ IF members[loc[i].o] = {}
         THEN /\ pc' = [pc EXCEPT ![i] = "quit_del"]
              /\ UNCHANGED loc
         ELSE /\ pc' = [pc EXCEPT ![i] = "quit_loop"]
              /\ loc' = [loc EXCEPT ![i].todo = @ \ {loc[i].c}, ![i].c = 0,
                                    ![i].o = NoObj]
    /\ UNCHANGED << regVars, userVars, chanVars, rxVars, outbound, writerVars, ncmd, line, guards >>

\* handle_quit, loop body: channels.remove(channel_name)
QuitDelete(i) ==
    /\ pc[i] = "quit_del"
    /\ channels' = [channels EXCEPT ![loc[i].c] = NoObj]
    /\ pc' = [pc EXCEPT ![i] = "quit_loop"]
    /\ loc' = [loc EXCEPT ![i].todo = @ \ {loc[i].c}, ![i].c = 0, ![i].o = NoObj]
    /\ UNCHANGED << users, nick, userVars, chanVars, rxVars, outbound, writerVars,
                    ncmd, line, guards >>

\* client_reader_task on Ok(UserStatus::Leaving): tx_status.send, break
QuitLeave(i) ==
    /\ pc[i] = "quit_loop"
    /\ loc[i].todo = {}
    /\ status_q' = [status_q EXCEPT ![i] = writer_up[i]]
    /\ pc' = [pc EXCEPT ![i] = "closed"]
    /\ loc' = [loc EXCEPT ![i] = NoLoc]
    /\ UNCHANGED << regVars, userVars, chanVars, rxVars, outbound, control,
                    writer_up, tasks, aggregated, written, ncmd, line, guards >>

\* client_reader_task on Ok(0) | Err(_) of read_line: break, nothing else
ReadEof(i) ==
    /\ pc[i] = "idle"
    /\ pc' = [pc EXCEPT ![i] = "closed"]
    /\ UNCHANGED << regVars, userVars, chanVars, rxVars, loc, outbound, writerVars,
                    ncmd, line, guards >>

\* ------------------------------------------------------ client_writer_task
\* Faulty variant of WriteDirect: the newest line of the queue is written first
WriteDirect_NewestFirst(i) ==
    /\ writer_up[i]
    /\ outbound[i] # << >>
    /\ written' = [written EXCEPT ![i] = Append(@, outbound[i][Len(outbound[i])])]
    /\ outbound' = [outbound EXCEPT ![i] = SubSeq(@, 1, Len(@) - 1)]
    /\ UNCHANGED << regVars, userVars, chanVars, rxVars, pc, loc, control, status_q,
                    writer_up, tasks, aggregated, ncmd, line, guards >>

\* select! branch rx_outbound.recv(): write_all of the line
WriteDirect(i) ==
    /\ writer_up[i]
    /\ outbound[i] # << >>
    /\ written' = [written EXCEPT ![i] = Append(@, Head(outbound[i]))]
    /\ outbound' = [outbound EXCEPT ![i] = Tail(@)]
    /\ UNCHANGED << regVars, userVars, chanVars, rxVars, pc, loc, control, status_q,
                    writer_up, tasks, aggregated, ncmd, line, guards >>

\* Faulty variant of WriteAggregated: the newest line of the queue is written
\* first
WriteAggregated_NewestFirst(i) ==
    /\ writer_up[i]
    /\ aggregated[i] # << >>
    /\ written' = [written EXCEPT ![i] = Append(@, aggregated[i][Len(aggregated[i])])]
    /\ aggregated' = [aggregated EXCEPT ![i] = SubSeq(@, 1, Len(@) - 1)]
    /\ UNCHANGED << regVars, userVars, chanVars, rxVars, pc, loc, outbound, control,
                    status_q, writer_up, tasks, ncmd, line, guards >>

\* select! branch rx_aggregated.recv(): write_all of the line
WriteAggregated(i) ==
    /\ writer_up[i]
    /\ aggregated[i] # << >>
    /\ written' = [written EXCEPT ![i] = Append(@, Head(aggregated[i]))]
    /\ aggregated' = [aggregated EXCEPT ![i] = Tail(@)]
    /\ UNCHANGED << regVars, userVars, chanVars, rxVars, pc, loc, outbound, control,
                    status_q, writer_up, tasks, ncmd, line, guards >>

\* select! branch rx_control.recv(), Subscribe: spawn the forwarder task
WriterSubscribe(i) ==
    /\ writer_up[i]
    /\ control[i] # << >>
    /\ tasks' = [tasks EXCEPT ![i] = @ \cup {Head(control[i])}]
    /\ control' = [control EXCEPT ![i] = Tail(@)]
    /\ UNCHANGED << regVars, userVars, chanVars, rxVars, pc, loc, outbound, status_q,
                    writer_up, aggregated, written, ncmd, line, guards >>

\* The line the forwarder task puts on the aggregated channel for a broadcast
\* message: DirectIrcMessage { sender: None, raw_line }, whoever sent it
forwarded(i, m) == << m >>

\* The forwarder task spawned for a subscription: rx.recv(), tx.send
Forward(i, o) ==
    /\ writer_up[i]
    /\ o \in tasks[i]
    /\ rx[i][o] # << >>
    /\ Len(aggregated[i]) < AGGREGATED_CHANNEL_SIZE
    /\ aggregated' = [aggregated EXCEPT ![i] = @ \o forwarded(i, Head(rx[i][o]))]
    /\ rx' = [rx EXCEPT ![i][o] = Tail(@)]
    /\ UNCHANGED << regVars, userVars, chanVars, has_rx, sent, pc, loc, outbound,
                    control, status_q, writer_up, tasks, written, ncmd, line, guards >>

\* The writer leaves its loop: the forwarder tasks are aborted and the
\* receivers of its queues and subscriptions are dropped.
WriterStops(i) ==
    /\ writer_up' = [writer_up EXCEPT ![i] = FALSE]
    /\ tasks' = [tasks EXCEPT ![i] = {}]
    /\ has_rx' = [has_rx EXCEPT ![i] = {}]
    /\ rx' = [rx EXCEPT ![i] = [o \in Objs |-> << >>]]
    /\ outbound' = [outbound EXCEPT ![i] = << >>]
    /\ control' = [control EXCEPT ![i] = << >>]
    /\ aggregated' = [aggregated EXCEPT ![i] = << >>]
    /\ status_q' = [status_q EXCEPT ![i] = FALSE]
    /\ UNCHANGED sent

\* select! branch rx_status.recv(): UserStatus::Leaving => break
WriterLeaving(i) ==
    /\ writer_up[i]
    /\ status_q[i]
    /\ WriterStops(i)
    /\ UNCHANGED << regVars, userVars, chanVars, pc, loc, written, ncmd, line, guards >>

\* write_all returns Err in one of the two writing branches: break
WriteFails(i) ==
    /\ writer_up[i]
    /\ outbound[i] # << >> \/ aggregated[i] # << >>
    /\ WriterStops(i)
    /\ UNCHANGED << regVars, userVars, chanVars, pc, loc, written, ncmd, line, guards >>

\* -------------------------------------------------------------------- Next
Reader(i) ==
    \/ handle_client(i)
    \/ \E n \in Nicks : NickCheck(i, n)
    \/ NickSet(i)
    \/ NickInsert(i)
    \/ NickRelay(i)
    \/ User(i)
    \/ \E c \in ChanNames : JoinGetOrCreate(i, c)
    \/ JoinAdd(i)
    \/ JoinSubscribe(i)
    \/ JoinRelay(i)
    \/ \E c \in ChanNames : PrivmsgChannel(i, c)
    \/ \E n \in Nicks : PrivmsgNick(i, n)
    \/ QuitRemoveUser(i)
    \/ QuitBroadcast(i)
    \/ \E c \in ChanNames : QuitRemoveMember(i, c)
    \/ QuitCheckEmpty(i)
    \/ QuitDelete(i)
    \/ QuitLeave(i)
    \/ ReadEof(i)

Writer(i) ==
    \/ WriteDirect(i)
    \/ WriteAggregated(i)
    \/ WriterSubscribe(i)
    \/ \E o \in Objs : Forward(i, o)
    \/ WriterLeaving(i)
    \/ WriteFails(i)

Next == \E i \in Clients : Reader(i) \/ Writer(i)

Spec == Init /\ [][Next]_vars

\* ---------------------------------------------- the channel subsystem alone
\* The state in which every client has connected, sent NICK (client i took
\* nickname i) and USER, client 1 has then created and joined every channel
\* (channel c is object c), and the writers have written everything out.
\* The creator is the connection that drew the first id of NEXT_USER_ID.
Creator == 1

JoinBurst(i, c) ==
    << Msg("JOIN", i, c, 0), Msg("331", i, c, 0), Msg("353", i, c, 0),
       Msg("366", i, c, 0) >>

RECURSIVE JoinBursts(_, _)
JoinBursts(i, c) == IF c = 0 THEN << >> ELSE JoinBursts(i, c - 1) \o JoinBurst(i, c)

ActiveInitWith(A, k, md) ==
    /\ users = A
    /\ nick = [n \in Nicks |-> IF n \in A THEN n ELSE NoClient]
    /\ channels = [c \in ChanNames |-> c]
    /\ user_nick = [i \in Clients |-> IF i \in A THEN i ELSE NoNick]
    /\ user_user = [i \in Clients |-> i \in A]
    /\ user_modes = [i \in Clients |-> {}]
    /\ registered = [i \in Clients |-> i \in A]
    /\ member_of = [i \in Clients |-> IF i = Creator THEN ChanNames ELSE {}]
    /\ next_obj = NumChans
    /\ obj_name = [o \in Objs |-> IF o \in ChanNames THEN o ELSE 0]
    /\ members = [o \in Objs |-> IF o \in ChanNames THEN {Creator} ELSE {}]
    /\ operators = [o \in Objs |-> IF o \in ChanNames THEN {Creator} ELSE {}]
    /\ modes = md
    /\ rx = [i \in Clients |-> [o \in Objs |-> << >>]]
    /\ has_rx = [i \in Clients |-> IF i = Creator THEN ChanNames ELSE {}]
    /\ sent = {}
    /\ pc = [i \in Clients |-> IF i \in A THEN "idle" ELSE "none"]
    /\ loc = [i \in Clients |-> NoLoc]
    /\ outbound = [i \in Clients |-> << >>]
    /\ control = [i \in Clients |-> << >>]
    /\ status_q = [i \in Clients |-> FALSE]
    /\ writer_up = [i \in Clients |-> i \in A]
    /\ tasks = [i \in Clients |-> IF i = Creator THEN ChanNames ELSE {}]
    /\ aggregated = [i \in Clients |-> << >>]
    /\ written = [i \in Clients |->
                    IF i \in A
                      THEN << Msg("001", i, 0, i) >>
                           \o (IF i = Creator THEN JoinBursts(i, NumChans) ELSE << >>)
                      ELSE << >>]
    /\ ncmd = k
    /\ line = [i \in Clients |-> << >>]
    /\ guards = [i \in Clients |-> {}]

ActiveInit(A, k) == ActiveInitWith(A, k, [o \in Objs |-> ChannelModes_default])

InitActive == ActiveInit(Clients, MaxActiveCmds)

\* JOIN, PRIVMSG to a channel, QUIT and end of input, with the writer tasks
ReaderActive(i) ==
    \/ \E c \in ChanNames : JoinGetOrCreate(i, c)
    \/ JoinAdd(i)
    \/ JoinSubscribe(i)
    \/ JoinRelay(i)
    \/ \E c \in ChanNames : PrivmsgChannel(i, c)
    \/ QuitRemoveUser(i)
    \/ QuitBroadcast(i)
    \/ \E c \in ChanNames : QuitRemoveMember(i, c)
    \/ QuitCheckEmpty(i)
    \/ QuitDelete(i)
    \/ QuitLeave(i)
    \/ ReadEof(i)

\* The registry side: the handlers of every connection, and writers ending
\* on a failed write
NextActive == \E i \in Clients : ReaderActive(i) \/ WriteFails(i)

SpecActive == InitActive /\ [][NextActive]_vars

\* The delivery side: NumTalkers connections with their writer tasks
InitDelivery == ActiveInit(1..NumTalkers, MaxTalkCmds)

NextDelivery == \E i \in Clients : ReaderActive(i) \/ Writer(i)

SpecDelivery == InitDelivery /\ [][NextDelivery]_vars

\* ------------------------------------------------- handle_join on its inputs
\* The inputs of handle_join: the modes of the channel (the first channel's
\* object; the lists hold clients out of Listed), the joiner, the key.
Keys == 1..NumKeys

SuppliedKeys == {None} \cup {Some(k) : k \in Keys}

Listed == Clients \ {Creator, NumClients}

JoinModes ==
    [invite_only : BOOLEAN,
     key : SuppliedKeys,
     user_limit : {None} \cup {Some(l) : l \in 1..MaxLimit},
     ban_list : SUBSET Listed,
     except_list : SUBSET Listed,
     invite_exceptions : SUBSET Listed]

InitJoin ==
    \E md \in JoinModes :
        ActiveInitWith(Clients, MaxJoinCmds,
                       [o \in Objs |-> IF o = 1 THEN md ELSE ChannelModes_default])

NextJoin ==
    \E i \in Clients :
        \/ \E c \in ChanNames : \E key \in SuppliedKeys : JoinStart(i, c, key)
        \/ JoinAdd(i)
        \/ JoinSubscribe(i)
        \/ JoinRelay(i)

SpecJoin == InitJoin /\ [][NextJoin]_vars

\* ------------------------------------------------ JOIN of names not yet used
\* The state in which every client has registered (client i took nickname i),
\* the writers have written the welcomes, and no channel exists.
RegisteredWith(k, p, l) ==
    /\ users = Clients
    /\ nick = [n \in Nicks |-> IF n \in Clients THEN n ELSE NoClient]
    /\ channels = [c \in ChanNames |-> NoObj]
    /\ user_nick = [i \in Clients |-> i]
    /\ user_user = [i \in Clients |-> TRUE]
    /\ user_modes = [i \in Clients |-> {}]
    /\ registered = [i \in Clients |-> TRUE]
    /\ member_of = [i \in Clients |-> {}]
    /\ next_obj = 0
    /\ obj_name = [o \in Objs |-> 0]
    /\ members = [o \in Objs |-> {}]
    /\ operators = [o \in Objs |-> {}]
    /\ modes = [o \in Objs |-> ChannelModes_default]
    /\ rx = [i \in Clients |-> [o \in Objs |-> << >>]]
    /\ has_rx = [i \in Clients |-> {}]
    /\ sent = {}
    /\ pc = p
    /\ loc = [i \in Clients |-> NoLoc]
    /\ outbound = [i \in Clients |-> << >>]
    /\ control = [i \in Clients |-> << >>]
    /\ status_q = [i \in Clients |-> FALSE]
    /\ writer_up = [i \in Clients |-> TRUE]
    /\ tasks = [i \in Clients |-> {}]
    /\ aggregated = [i \in Clients |-> << >>]
    /\ written = [i \in Clients |-> << Msg("001", i, 0, i) >>]
    /\ ncmd = k
    /\ line = l
    /\ guards = [i \in Clients |-> {}]

RegisteredInit(k) ==
    RegisteredWith(k, [i \in Clients |-> "idle"], [i \in Clients |-> << >>])

InitCreate == RegisteredInit(MaxCreateCmds)

\* JOIN only: no session leaves
NextCreate ==
    \E i \in Clients :
        \/ \E c \in ChanNames : JoinGetOrCreate(i, c)
        \/ JoinAdd(i)
        \/ JoinSubscribe(i)
        \/ JoinRelay(i)

SpecCreate == InitCreate /\ [][NextCreate]_vars

\* --------------------------------------------------------------------- PART
\* A PART line of a registered session for a channel it is in
PartLine(i, c) ==
    /\ ReadLine(i)
    /\ registered[i]
    /\ c \in member_of[i]

\* ServerState::quit_channel: get_channel and remove_member
PartRemoveMember(i, c) ==
    /\ PartLine(i, c)
    /\ IF channels[c] = NoObj
         THEN /\ pc' = [pc EXCEPT ![i] = "part_left"]
              /\ loc' = [loc EXCEPT ![i] = [NoLoc EXCEPT !.c = c]]
              /\ UNCHANGED members
         ELSE /\ members' = remove_member(channels[c], i)
              /\ loc' = [loc EXCEPT ![i] = [NoLoc EXCEPT !.c = c, !.o = channels[c]]]
              /\ pc' = [pc EXCEPT ![i] = "part_chk"]
    /\ UNCHANGED << regVars, userVars, next_obj, obj_name, operators, modes, rxVars,
                    outbound, writerVars >>

\* ServerState::quit_channel: channel.members.is_empty()
PartCheckEmpty(i) ==
    /\ pc[i] = "part_chk"
    /\ pc' = [pc EXCEPT ![i] = IF members[loc[i].o] = {} THEN "part_del"
                                                          ELSE "part_left"]
    /\ UNCHANGED << regVars, userVars, chanVars, rxVars, loc, outbound, writerVars,
                    ncmd, line, guards >>

\* ServerState::quit_channel: channels.remove(channel_name)
PartDelete(i) ==
    /\ pc[i] = "part_del"
    /\ channels' = [channels EXCEPT ![loc[i].c] = NoObj]
    /\ pc' = [pc EXCEPT ![i] = "part_left"]
    /\ UNCHANGED << users, nick, userVars, chanVars, rxVars, loc, outbound,
                    writerVars, ncmd, line, guards >>

\* UserState::left_channel
PartLeft(i) ==
    /\ pc[i] = "part_left"
    /\ member_of' = [member_of EXCEPT ![i] = @ \ {loc[i].c}]
    /\ pc' = [pc EXCEPT ![i] = "idle"]
    /\ loc' = [loc EXCEPT ![i] = NoLoc]
    /\ UNCHANGED << regVars, user_nick, user_user, user_modes, registered,
                    chanVars, rxVars,
                    outbound, writerVars, ncmd, line, guards >>

\* JOIN and PART of registered sessions, starting with no channel
InitPart == RegisteredInit(MaxPartCmds)

NextPart ==
    \E i \in Clients :
        \/ \E c \in ChanNames : JoinGetOrCreate(i, c)
        \/ JoinAdd(i)
        \/ JoinSubscribe(i)
        \/ JoinRelay(i)
        \/ \E c \in ChanNames : PartRemoveMember(i, c)
        \/ PartCheckEmpty(i)
        \/ PartDelete(i)
        \/ PartLeft(i)

SpecPart == InitPart /\ [][NextPart]_vars

\* ------------------------------------------------- NICK of registered sessions
\* NumTalkers registered sessions (the last nickname is free), their NICK and
\* JOIN commands
InitNick == ActiveInit(1..NumTalkers, MaxNickCmds)

NextNick ==
    \E i \in Clients :
        \/ \E n \in Nicks : NickCheck(i, n)
        \/ NickSet(i)
        \/ NickInsert(i)
        \/ NickRelay(i)
        \/ \E c \in ChanNames : JoinGetOrCreate(i, c)
        \/ JoinAdd(i)
        \/ JoinSubscribe(i)
        \/ JoinRelay(i)

SpecNick == InitNick /\ [][NextNick]_vars

\* ---------------------------------------------------------------- user MODE
\* with_modes: the flags it knows
KNOWN_MODES == {"a", "i", "w", "r", "o", "O", "s"}

\* valid_mode_message_parser: the flags it lets through, after '+' or '-'
ParsedFlags == {"i", "w", "o", "O", "r"}

\* with_modes: modes_are_valid
modes_are_valid(ms) ==
    \A g \in 1..Len(ms) :
        /\ ms[g].sign \in {"-", "+"}
        /\ \A k \in 1..Len(ms[g].flags) : ms[g].flags[k] \in KNOWN_MODES

\* with_modes: the inner loop over the flags of one (sign, flags) pair; every
\* test reads current_flags, the modes before the command
RECURSIVE apply_flags(_, _, _, _)
apply_flags(current_flags, new_user_mode_flags, flag, inner_modes) ==
    IF inner_modes = << >> THEN new_user_mode_flags
    ELSE LET mode == Head(inner_modes)
             next == IF flag = "+"
                       THEN (IF mode \notin current_flags
                               THEN new_user_mode_flags \cup {mode}
                               ELSE new_user_mode_flags)
                       ELSE (IF mode \in current_flags
                               THEN new_user_mode_flags \ {mode}
                               ELSE new_user_mode_flags)
         IN apply_flags(current_flags, next, flag, Tail(inner_modes))

\* with_modes: the outer loop over the pairs
RECURSIVE apply_modes(_, _, _)
apply_modes(current_flags, new_user_mode_flags, ms) ==
    IF ms = << >> THEN new_user_mode_flags
    ELSE apply_modes(current_flags,
                     apply_flags(current_flags, new_user_mode_flags,
                                 Head(ms).sign, Head(ms).flags),
                     Tail(ms))

\* UserState::with_modes for session i: what it returns, and User.modes after
with_modes(i, n, ms) ==
    IF ~modes_are_valid(ms)
      THEN [result |-> "ErrUModeUnknownFlag", modes |-> user_modes[i]]
    ELSE IF ~registered[i]
      THEN [result |-> "UserStateError", modes |-> user_modes[i]]
    ELSE IF user_nick[i] # n
      THEN [result |-> "ErrUsersDontMatch", modes |-> user_modes[i]]
    ELSE [result |-> "None",
          modes |-> apply_modes(user_modes[i], user_modes[i], ms)]

\* handle_mode_registration.  For Ok(Some(status)) the future of
\* tx_outbound.send(status_message) is dropped without .await: it never runs
\* and nothing is enqueued.  Err(e) goes back to the reader, which logs it.
Mode(i, n, ms) ==
    /\ ReadLine(i)
    /\ user_modes' = [user_modes EXCEPT ![i] = with_modes(i, n, ms).modes]
    /\ UNCHANGED << regVars, user_nick, user_user, registered, member_of, chanVars,
                    rxVars, pc, loc, outbound, writerVars >>

\* The MODE commands the parser produces: one to MaxModeGroups pairs of a sign
\* and one to MaxModeFlags flags
SeqsUpTo(S, n) == UNION { [1..k -> S] : k \in 1..n }

ModeGroups == [sign : {"+", "-"}, flags : SeqsUpTo(ParsedFlags, MaxModeFlags)]

ModeArgs == SeqsUpTo(ModeGroups, MaxModeGroups)

\* NumTalkers registered sessions without modes and one more connection that
\* does not register; their MODE commands
InitMode == ActiveInit(1..NumTalkers, MaxModeCmds)

NextMode ==
    \E i \in Clients :
        \/ handle_client(i)
        \/ \E n \in Nicks : \E ms \in ModeArgs : Mode(i, n, ms)

SpecMode == InitMode /\ [][NextMode]_vars

\* ------------------------------------------------------ a slow connection
\* The first session sends PRIVMSG after PRIVMSG to the nickname of the last
\* registered session, whose writer task writes them out at any pace
InitFlood == ActiveInit(1..NumTalkers, MaxFloodCmds)

NextFlood ==
    \/ PrivmsgNick(Creator, NumTalkers)
    \/ WriteDirect(NumTalkers)

SpecFlood == InitFlood /\ [][NextFlood]_vars

\* ------------------------------------------------------- QUIT to the end
\* NumTalkers registered sessions and one connection that does not register;
\* JOIN and QUIT, with the writer tasks
InitQuit == ActiveInit(1..NumTalkers, MaxQuitCmds)

NextQuit ==
    \E i \in Clients :
        \/ handle_client(i)
        \/ \E c \in ChanNames : JoinGetOrCreate(i, c)
        \/ JoinAdd(i)
        \/ JoinSubscribe(i)
        \/ JoinRelay(i)
        \/ QuitRemoveUser(i)
        \/ QuitBroadcast(i)
        \/ \E c \in ChanNames : QuitRemoveMember(i, c)
        \/ QuitCheckEmpty(i)
        \/ QuitDelete(i)
        \/ QuitLeave(i)
        \/ Writer(i)

\* A handler that has started goes on to its end: the reader task is polled
\* again after every await that can complete
HandlerStep(i) ==
    \/ JoinAdd(i)
    \/ JoinSubscribe(i)
    \/ JoinRelay(i)
    \/ QuitBroadcast(i)
    \/ \E c \in ChanNames : QuitRemoveMember(i, c)
    \/ QuitCheckEmpty(i)
    \/ QuitDelete(i)
    \/ QuitLeave(i)

\* The runtime polls every spawned task that can make progress, and select!
\* picks among its ready branches at random: a branch that stays ready is
\* taken eventually.  What the peer does (a new line, a failing socket) is
\* under no such condition.
FairQuit ==
    \A i \in Clients :
        /\ WF_vars(HandlerStep(i))
        /\ WF_vars(WriteDirect(i))
        /\ WF_vars(WriteAggregated(i))
        /\ WF_vars(WriterSubscribe(i))
        /\ WF_vars(\E o \in Objs : Forward(i, o))
        /\ WF_vars(WriterLeaving(i))

SpecQuit == InitQuit /\ [][NextQuit]_vars /\ FairQuit

\* ---------------------------------------------------------- unknown command
\* The nick field "*" of a reply to a session that has not registered; no
\* nickname equals it
Star == 0

\* IrcUnknownCommand::handle_command: the nick it puts in the reply
IrcUnknownCommand_nick(i) == IF registered[i] THEN user_nick[i] ELSE Star

\* IrcUnknownCommand::handle_command: the status it returns
IrcUnknownCommand_status(i) ==
    IF IrcUnknownCommand_nick(i) # Star THEN "Handshaking" ELSE "Active"

\* handle_request, fallback: IrcUnknownCommand::handle_command for a line that
\* no other parser accepts (unknwon_command_parser takes the line up to its
\* first space and never fails).  The reader does nothing with a returned
\* status other than Leaving.
Unknown(i) ==
    /\ ReadLine(i)
    /\ CanSend(i)
    /\ outbound' = Enqueue(outbound, i, Msg("421", i, 0, IrcUnknownCommand_nick(i)))
    /\ UNCHANGED << regVars, userVars, chanVars, rxVars, pc, loc, writerVars >>

\* Connections that register (or not) and send lines that match no grammar
NextUnknown ==
    \E i \in Clients :
        \/ handle_client(i)
        \/ \E n \in Nicks : NickCheck(i, n)
        \/ NickSet(i)
        \/ NickInsert(i)
        \/ NickRelay(i)
        \/ User(i)
        \/ Unknown(i)

SpecUnknown == Init /\ [][NextUnknown]_vars

\* ------------------------------------------------------------------ parsers
\* Characters are one-character strings; a line is a sequence of them.  The
\* character classes, over the characters the lines of the model are made of
Alphabetic == {"a", "z", "E", "F", "G", "I", "N", "P", "R", "S", "U"}

Digit == {"0", "1", "2", "3", "4", "5", "6", "7", "8", "9"}

Alphanumeric == Alphabetic \cup Digit

HexDigit == Digit \cup {"a", "F"}

\* str::trim, the only whitespace of the model being the space
trim(s) ==
    IF \A k \in 1..Len(s) : s[k] = " " THEN << >>
    ELSE LET a == CHOOSE k \in 1..Len(s) : s[k] # " " /\ \A h \in 1..(k - 1) : s[h] = " "
             b == CHOOSE k \in 1..Len(s) : s[k] # " " /\ \A h \in (k + 1)..Len(s) : s[h] = " "
         IN  SubSeq(s, a, b)

\* A parser takes the input and the position of its first unread character; it
\* returns the position after what it consumed, or Fail (nom's Err)
Fail == 0

\* sequencing: the next parser runs where the previous one stopped
AndThen(q, F(_)) == IF q = Fail THEN Fail ELSE F(q)

\* nom tag
tag(s, p, t) ==
    IF p + Len(t) - 1 <= Len(s) /\ SubSeq(s, p, p + Len(t) - 1) = t
    THEN p + Len(t) ELSE Fail

\* nom satisfy: one character of the class
satisfy(s, p, S) == IF p <= Len(s) /\ s[p] \in S THEN p + 1 ELSE Fail

\* nom take_while and many0(satisfy): the longest run of the class, never Fail
take_while(s, p, S) ==
    CHOOSE q \in p..(Len(s) + 1) :
        /\ \A k \in p..(q - 1) : s[k] \in S
        /\ q = Len(s) + 1 \/ s[q] \notin S

\* nom take_while_m_n
take_while_m_n(m, n, s, p, S) ==
    LET q == take_while(s, p, S)
        r == IF q - p > n THEN p + n ELSE q
    IN  IF r - p < m THEN Fail ELSE r

\* shortname_parser: a first character, many0 of the inner class, a last one
shortname_parser(s, p) ==
    AndThen(AndThen(satisfy(s, p, Alphanumeric),
                    LAMBDA q : take_while(s, q, Alphanumeric \cup {"-"})),
            LAMBDA q : satisfy(s, q, Alphanumeric))

\* many0(preceded(tag("."), shortname_parser))
RECURSIVE many0_dot_shortname(_, _)
many0_dot_shortname(s, p) ==
    LET q == AndThen(tag(s, p, << "." >>), LAMBDA r : shortname_parser(s, r))
    IN  IF q = Fail THEN p ELSE many0_dot_shortname(s, q)

\* hostname_parser
hostname_parser(s, p) ==
    LET q == AndThen(shortname_parser(s, p), LAMBDA r : many0_dot_shortname(s, r))
    IN  IF q # Fail /\ q - p <= 63 THEN q ELSE Fail

\* ip4_octet_parser
ip4_octet_parser(s, p) == take_while_m_n(1, 3, s, p, Digit)

\* ip4addr_parser
ip4addr_parser(s, p) ==
    LET dot_octet(q) ==
            AndThen(tag(s, q, << "." >>), LAMBDA r : ip4_octet_parser(s, r))
    IN  AndThen(AndThen(AndThen(ip4_octet_parser(s, p), dot_octet), dot_octet),
                dot_octet)

\* ip6_block_parser (nom hexdigit1)
ip6_block_parser(s, p) ==
    LET q == take_while(s, p, HexDigit) IN IF q = p THEN Fail ELSE q

\* count(preceded(tag(":"), ip6_block_parser), n)
RECURSIVE count_colon_block(_, _, _)
count_colon_block(s, p, n) ==
    IF n = 0 THEN p
    ELSE AndThen(AndThen(tag(s, p, << ":" >>), LAMBDA q : ip6_block_parser(s, q)),
                 LAMBDA q : count_colon_block(s, q, n - 1))

\* ip6addr_normal_parser
ip6addr_normal_parser(s, p) ==
    AndThen(ip6_block_parser(s, p), LAMBDA q : count_colon_block(s, q, 7))

\* ip6addr_ipv4_compat_parser
ip6addr_ipv4_compat_parser(s, p) ==
    LET zeros == << "0", ":", "0", ":", "0", ":", "0", ":", "0", ":" >>
        a == tag(s, p, zeros)
        b == AndThen(a, LAMBDA q : IF tag(s, q, << "0" >>) # Fail
                                   THEN tag(s, q, << "0" >>)
                                   ELSE tag(s, q, << "F", "F", "F", "F" >>))
    IN  AndThen(AndThen(b, LAMBDA q : tag(s, q, << ":" >>)),
                LAMBDA q : ip4addr_parser(s, q))

\* alt: the first alternative that succeeds
alt(a, b) == IF a # Fail THEN a ELSE b

\* ip6addr_parser
ip6addr_parser(s, p) ==
    alt(ip6addr_ipv4_compat_parser(s, p), ip6addr_normal_parser(s, p))

\* hostaddr_parser
hostaddr_parser(s, p) == alt(ip4addr_parser(s, p), ip6addr_parser(s, p))

\* host_parser
host_parser(s, p) == alt(hostname_parser(s, p), hostaddr_parser(s, p))

\* preceded(tag(" "), host_parser)
space_host(s, p) == AndThen(tag(s, p, << " " >>), LAMBDA q : host_parser(s, q))

\* many0 of it: the hosts recognized from p on
RECURSIVE many0_space_host(_, _)
many0_space_host(s, p) ==
    LET q == space_host(s, p)
    IN  IF q = Fail THEN << >>
        ELSE << SubSeq(s, p + 1, q - 1) >> \o many0_space_host(s, q)

\* tag_no_case of the command word: the model writes it in upper case only
PING == << "P", "I", "N", "G" >>

\* valid_ping_parser: Some(servers) or None
valid_ping_parser(s) ==
    LET p == tag(s, 1, PING)
    IN  IF p = Fail \/ space_host(s, p) = Fail THEN None
        ELSE Some(many0_space_host(s, p))

\* The PONG line, with the destination it names
Pong(i, destination) ==
    [kind |-> "PONG", src |-> i, chan |-> 0, n |-> 0, destination |-> destination]

\* handle_request for a line that begins with PING: no parser tried before
\* IrcMiscellaneousMessages takes it; when valid_ping_parser fails none of the
\* later ones does either, and the line ends in the IrcUnknownCommand fallback.
\* handle_ping answers with server[0].
Ping(i) ==
    /\ pc[i] = "request"
    /\ tag(trim(line[i]), 1, PING) # Fail
    /\ CanSend(i)
    /\ LET parsed == valid_ping_parser(trim(line[i]))
       IN  outbound' =
               IF parsed # None
               THEN Enqueue(outbound, i, Pong(i, (CHOOSE server \in parsed : TRUE)[1]))
               ELSE Enqueue(outbound, i, Msg("421", i, 0, IrcUnknownCommand_nick(i)))
    /\ pc' = [pc EXCEPT ![i] = "handled"]
    /\ UNCHANGED << regVars, userVars, chanVars, rxVars, loc, writerVars, ncmd, line, guards >>

\* client_reader_task, after handle_request returned: line.clear()
ClearLine(i) ==
    /\ pc[i] = "handled"
    /\ line' = [line EXCEPT ![i] = << >>]
    /\ pc' = [pc EXCEPT ![i] = "idle"]
    /\ UNCHANGED << regVars, userVars, chanVars, rxVars, loc, outbound, writerVars, ncmd,
                    guards >>

\* The lines of the PING runs: the command word, a space and up to MaxPingLen
\* more characters
PingChars == {"a", "1", "-", ".", " "}

PingLines == { PING \o << " " >> \o t : t \in SeqsUpTo(PingChars, MaxPingLen) }

\* Registered sessions; the reader of the first holds a line it has just read
RequestInit(L) ==
    \E l \in L :
        RegisteredWith(0, [i \in Clients |-> IF i = 1 THEN "request" ELSE "idle"],
                       [i \in Clients |-> IF i = 1 THEN l ELSE << >>])

InitPing == RequestInit(PingLines)

NextPing ==
    \E i \in Clients :
        \/ Ping(i)
        \/ ClearLine(i)
        \/ WriteDirect(i)

SpecPing == InitPing /\ [][NextPing]_vars

\* ---------------------------------------------------------- nickname_parser
\* The backslash and the backtick, written out because a string of this
\* module cannot hold them
Backslash == "backslash"

Backtick == "backtick"

\* The specials of the nickname grammar
Special == {"[", "]", Backslash, Backtick, "^", "{", "}"}

\* is_nickname_tail_char
is_nickname_tail_char == Alphanumeric \cup ({"-"} \cup Special)

\* is_nickname_first_char
is_nickname_first_char == Alphabetic \cup ({"-"} \cup Special)

\* nickname_parser
nickname_parser(s, p) ==
    LET q == AndThen(satisfy(s, p, is_nickname_first_char),
                     LAMBDA r : take_while(s, r, is_nickname_tail_char))
    IN  IF q # Fail /\ q - p <= 9 THEN q ELSE Fail

\* nickname_parser applied to the input the task holds; rest is the position
\* of the first character it left unread, or Fail
ParseNickname(i) ==
    /\ pc[i] = "request"
    /\ loc' = [loc EXCEPT ![i] = [rest |-> nickname_parser(line[i], 1)]]
    /\ pc' = [pc EXCEPT ![i] = "handled"]
    /\ UNCHANGED << regVars, userVars, chanVars, rxVars, outbound, writerVars, ncmd, line, guards >>

\* The inputs of the nickname_parser runs: up to MaxNickLen characters of every
\* class, followed by up to MaxNickPad letters
NickChars == {"a", "1", "[", "-", "!"}

NicknameInputs ==
    { t \o [k \in 1..n |-> "a"] :
          t \in {<< >>} \cup SeqsUpTo(NickChars, MaxNickLen), n \in 0..MaxNickPad }

InitNickname == RequestInit(NicknameInputs)

NextNickname ==
    \E i \in Clients :
        \/ ParseNickname(i)
        \/ ClearLine(i)

SpecNickname == InitNickname /\ [][NextNickname]_vars

\* ------------------------------------------------------------------ replies
\* The numerics of constants.rs
RPL_WELCOME_NB == 1

RPL_UMODEIS_NB == 221

RPL_NOTOPIC_NB == 331

RPL_TOPIC_NB == 332

RPL_NAMREPLY_NB == 353

RPL_ENDOFNAMES_NB == 353

ERR_NOSUCHCHANNEL_NB == 403

ERR_UNKNOWNCOMMAND_NB == 421

ERR_NICKNAMEINUSE_NB == 433

ERR_NOTONCHANNEL_NB == 433

ERR_NOTREGISTERED_NB == 451

ERR_NEEDMOREPARAMS_NB == 461

ERR_CHANNELISFULL_NB == 471

ERR_INVITEONLYCHAN_NB == 473

ERR_BANNEDFROMCHAN_NB == 474

ERR_BADCHANNELKEY_NB == 475

ERR_UMODEUNKNOWNFLAG_NB == 501

ERR_USERSDONTMATCH_NB == 502

\* The kinds of IrcReply that IrcReply::format writes with a numeric.  A kind
\* is named, here and in the messages of the queues, by the numeric RFC 2812
\* gives it (ErrNotOnChannel is "442"); the numeric of the line written for it
\* is what IrcReply_format computes.
ReplyKinds ==
    {"001", "221", "331", "332", "353", "366", "403", "421", "433",
     "442", "451", "461", "471", "473", "474", "475", "501", "502"}

\* IrcReply::format: the numeric it puts in the line of a reply of kind k
IrcReply_format(k) ==
    CASE k = "001" -> RPL_WELCOME_NB
      [] k = "221" -> RPL_UMODEIS_NB
      [] k = "331" -> RPL_NOTOPIC_NB
      [] k = "332" -> RPL_TOPIC_NB
      [] k = "353" -> RPL_NAMREPLY_NB
      [] k = "366" -> RPL_ENDOFNAMES_NB
      [] k = "403" -> ERR_NOSUCHCHANNEL_NB
      [] k = "421" -> ERR_UNKNOWNCOMMAND_NB
      [] k = "433" -> ERR_NICKNAMEINUSE_NB
      [] k = "442" -> ERR_NOTONCHANNEL_NB
      [] k = "451" -> ERR_NOTREGISTERED_NB
      [] k = "461" -> ERR_NEEDMOREPARAMS_NB
      [] k = "471" -> ERR_CHANNELISFULL_NB
      [] k = "473" -> ERR_INVITEONLYCHAN_NB
      [] k = "474" -> ERR_BANNEDFROMCHAN_NB
      [] k = "475" -> ERR_BADCHANNELKEY_NB
      [] k = "501" -> ERR_UMODEUNKNOWNFLAG_NB
      [] k = "502" -> ERR_USERSDONTMATCH_NB

\* ------------------------------------------- the NewJoin arm, await by await
\* The guards a handler can hold: the read guard of a channel's topic or modes
\* lock, the DashMap guard of an entry of `users`
Guard(lock, of) == [lock |-> lock, of |-> of]

\* handle_join_channel, NewJoin arm after the control send: broadcast_message,
\* then `let potential_topic = channel.topic.read().await`; the guard lives to
\* the end of the arm.  No task takes the write side of the lock.  The handler
\* is then at the send of NoTopic (no handler sets a topic).
JoinBroadcast(i) ==
    /\ pc[i] = "join_relay"
    /\ LET o == loc[i].o
           c == loc[i].c
       IN /\ rx' = broadcast_message(o, Msg("JOIN", i, c, 0))
          /\ sent' = sent \cup {Sent(o, Msg("JOIN", i, c, 0))}
          /\ guards' = [guards EXCEPT ![i] = @ \cup {Guard("topic", o)}]
    /\ pc' = [pc EXCEPT ![i] = "join_topic"]
    /\ UNCHANGED << regVars, userVars, chanVars, has_rx, loc, outbound, writerVars,
                    ncmd, line >>

\* tx_outbound.send(no_topic_message).await, then handle_names_reply up to its
\* loop: `let modes = channel.modes.read().await`, held to the end of the
\* function, and the members collected from the channel
JoinNoTopic(i) ==
    /\ pc[i] = "join_topic"
    /\ CanSend(i)
    /\ outbound' = Enqueue(outbound, i, Msg("331", i, loc[i].c, 0))
    /\ guards' = [guards EXCEPT ![i] = @ \cup {Guard("modes", loc[i].o)}]
    /\ loc' = [loc EXCEPT ![i].todo = members[loc[i].o]]
    /\ pc' = [pc EXCEPT ![i] = "names_get"]
    /\ UNCHANGED << regVars, userVars, chanVars, rxVars, writerVars, ncmd, line >>

\* handle_names_reply, loop: `if let Some(user) = server_state.users.get(..)`
\* keeps the entry's guard for the body, which begins with
\* user.user.read().await; after the last member the function returns and its
\* modes guard is dropped
NamesGet(i) ==
    /\ pc[i] = "names_get"
    /\ IF loc[i].todo = {}
         THEN /\ guards' = [guards EXCEPT ![i] = @ \ {Guard("modes", loc[i].o)}]
              /\ pc' = [pc EXCEPT ![i] = "join_names"]
              /\ UNCHANGED loc
         ELSE \E j \in loc[i].todo :
                  /\ loc' = [loc EXCEPT ![i].todo = @ \ {j}]
                  /\ IF j \in users
                       THEN /\ guards' = [guards EXCEPT ![i] = @ \cup {Guard("users", j)}]
                            /\ pc' = [pc EXCEPT ![i] = "names_read"]
                       ELSE UNCHANGED << guards, pc >>
    /\ UNCHANGED << regVars, userVars, chanVars, rxVars, outbound, writerVars, ncmd,
                    line >>

\* handle_names_reply, loop body: the read of the member's nick completes; the
\* session's read guard and the entry's guard are dropped at the end of the body
NamesRead(i) ==
    /\ pc[i] = "names_read"
    /\ guards' = [guards EXCEPT ![i] = { g \in @ : g.lock # "users" }]
    /\ pc' = [pc EXCEPT ![i] = "names_get"]
    /\ UNCHANGED << regVars, userVars, chanVars, rxVars, loc, outbound, writerVars,
                    ncmd, line >>

\* tx_outbound.send(channel_names).await
JoinNames(i) ==
    /\ pc[i] = "join_names"
    /\ CanSend(i)
    /\ outbound' = Enqueue(outbound, i, Msg("353", i, loc[i].c, 0))
    /\ pc' = [pc EXCEPT ![i] = "join_end"]
    /\ UNCHANGED << regVars, userVars, chanVars, rxVars, loc, writerVars, ncmd, line,
                    guards >>

\* tx_outbound.send(channel_end_of_names).await, user_state.join_channel, end
\* of the arm: potential_topic is dropped
JoinEnd(i) ==
    /\ pc[i] = "join_end"
    /\ CanSend(i)
    /\ outbound' = Enqueue(outbound, i, Msg("366", i, loc[i].c, 0))
    /\ member_of' = [member_of EXCEPT ![i] = @ \cup {loc[i].c}]
    /\ guards' = [guards EXCEPT ![i] = @ \ {Guard("topic", loc[i].o)}]
    /\ pc' = [pc EXCEPT ![i] = "idle"]
    /\ loc' = [loc EXCEPT ![i] = NoLoc]
    /\ UNCHANGED << regVars, user_nick, user_user, user_modes, registered, chanVars,
                    rxVars, writerVars, ncmd, line >>

\* JOIN lines of registered sessions, the NewJoin arm taken await by await
InitGuards == RegisteredInit(MaxGuardCmds)

NextGuards ==
    \E i \in Clients :
        \/ \E c \in ChanNames : JoinGetOrCreate(i, c)
        \/ JoinAdd(i)
        \/ JoinSubscribe(i)
        \/ JoinBroadcast(i)
        \/ JoinNoTopic(i)
        \/ NamesGet(i)
        \/ NamesRead(i)
        \/ JoinNames(i)
        \/ JoinEnd(i)

SpecGuards == InitGuards /\ [][NextGuards]_vars

\* --------------------------------------------------------------------- USER
\* The characters of the lines of the model, and the classes of parsers.rs
\* over them
Chars ==
    Alphanumeric \cup Special \cup {"-", ".", " ", ":", "!", "*", "@", "#", "$", "%"}

\* is_user_char
is_user_char == Chars \ {" ", "@"}

\* is_nospcrlfcl
is_nospcrlfcl == Chars \ {" ", ":"}

\* char::is_whitespace
is_whitespace == {" "}

\* nom take_while1
take_while1(s, p, S) == LET q == take_while(s, p, S) IN IF q = p THEN Fail ELSE q

\* str::parse::<u8> of a run of digits: Some(value), None when it is over 255
DigitValue(c) ==
    CASE c = "0" -> 0 [] c = "1" -> 1 [] c = "2" -> 2 [] c = "3" -> 3 [] c = "4" -> 4
      [] c = "5" -> 5 [] c = "6" -> 6 [] c = "7" -> 7 [] c = "8" -> 8 [] c = "9" -> 9

RECURSIVE Decimal(_)
Decimal(d) ==
    IF d = << >> THEN 0
    ELSE 10 * Decimal(SubSeq(d, 1, Len(d) - 1)) + DigitValue(d[Len(d)])

parse_u8(d) == IF Decimal(d) <= 255 THEN Some(Decimal(d)) ELSE None

USER == << "U", "S", "E", "R" >>

\* valid_user_message_rfc2812_parser.  user_mode_parser turns a mode that does
\* not fit in a u8 into nom::Err::Failure, which ends the surrounding alt;
\* every other failure is an Err::Error, after which alt tries the next parser
valid_user_message_rfc2812_parser(s) ==
    LET a == AndThen(tag(s, 1, USER \o << " " >>),
                     LAMBDA q : take_while1(s, q, is_user_char))
        b == AndThen(a, LAMBDA q : tag(s, q, << " " >>))
        c == AndThen(b, LAMBDA q : take_while1(s, q, Digit))
        d == AndThen(AndThen(c, LAMBDA q : tag(s, q, << " " >>)),
                     LAMBDA q : take_while1(s, q, Chars \ is_whitespace))
        e == AndThen(d, LAMBDA q : tag(s, q, << " ", ":" >>))
    IN  IF c = Fail THEN [result |-> "Error"]
        ELSE IF parse_u8(SubSeq(s, b, c - 1)) = None THEN [result |-> "Failure"]
        ELSE IF e = Fail THEN [result |-> "Error"]
        ELSE [result |-> "Ok", mode |-> CHOOSE m \in parse_u8(SubSeq(s, b, c - 1)) : TRUE]

\* valid_user_message_rfc1459_parser (servername_parser is hostname_parser)
valid_user_message_rfc1459_parser(s) ==
    LET a == AndThen(tag(s, 1, USER \o << " " >>),
                     LAMBDA q : take_while1(s, q, is_user_char))
        b == AndThen(AndThen(a, LAMBDA q : tag(s, q, << " " >>)),
                     LAMBDA q : hostname_parser(s, q))
        c == AndThen(AndThen(b, LAMBDA q : tag(s, q, << " " >>)),
                     LAMBDA q : hostname_parser(s, q))
    IN  AndThen(c, LAMBDA q : tag(s, q, << " ", ":" >>))

\* IrcConnectionRegistration::irc_command_parser and the dispatcher, for a line
\* that begins with USER: Some(mode handed to handle_user_registration), or
\* None when no parser takes the line
user_command_mode(s) ==
    LET r == valid_user_message_rfc2812_parser(s)
    IN  IF r.result = "Ok" THEN Some(r.mode)
        ELSE IF r.result = "Failure" THEN None
        ELSE IF valid_user_message_rfc1459_parser(s) # Fail THEN Some(0)
        ELSE None

\* handle_request for a line that begins with USER: handle_user_registration,
\* or the IrcUnknownCommand fallback when the line is not parsed
UserRequest(i) ==
    /\ pc[i] = "request"
    /\ tag(trim(line[i]), 1, USER) # Fail
    /\ LET parsed == user_command_mode(trim(line[i]))
       IN  IF parsed # None
           THEN handle_user_registration(i, CHOOSE m \in parsed : TRUE)
           ELSE /\ CanSend(i)
                /\ outbound' =
                       Enqueue(outbound, i, Msg("421", i, 0, IrcUnknownCommand_nick(i)))
                /\ UNCHANGED << regVars, userVars, chanVars, rxVars, writerVars >>
    /\ pc' = [pc EXCEPT ![i] = "handled"]
    /\ UNCHANGED << loc, ncmd, line, guards >>

\* The USER lines drawn: USER a <mode> * :a with one to MaxModeDigits digits
\* for the mode, and one line in the form of RFC 1459
UserLines ==
    { USER \o << " ", "a", " " >> \o d \o << " ", "*", " ", ":", "a" >> :
          d \in SeqsUpTo(Digit, MaxModeDigits) }
    \cup { USER \o << " ", "a", " ", "a", " ", "a", " ", ":", "a" >> }

\* Every connection accepted; the first has sent NICK or not, and its reader
\* has read a USER line
InitUser ==
    \E l \in UserLines : \E n \in {NoNick, 1} :
        /\ users = Clients
        /\ nick = [m \in Nicks |-> NoClient]
        /\ channels = [c \in ChanNames |-> NoObj]
        /\ user_nick = [i \in Clients |-> IF i = 1 THEN n ELSE NoNick]
        /\ user_user = [i \in Clients |-> FALSE]
        /\ user_modes = [i \in Clients |-> {}]
        /\ registered = [i \in Clients |-> FALSE]
        /\ member_of = [i \in Clients |-> {}]
        /\ next_obj = 0
        /\ obj_name = [o \in Objs |-> 0]
        /\ members = [o \in Objs |-> {}]
        /\ operators = [o \in Objs |-> {}]
        /\ modes = [o \in Objs |-> ChannelModes_default]
        /\ rx = [i \in Clients |-> [o \in Objs |-> << >>]]
        /\ has_rx = [i \in Clients |-> {}]
        /\ sent = {}
        /\ pc = [i \in Clients |-> IF i = 1 THEN "request" ELSE "idle"]
        /\ loc = [i \in Clients |-> NoLoc]
        /\ outbound = [i \in Clients |-> << >>]
        /\ control = [i \in Clients |-> << >>]
        /\ status_q = [i \in Clients |-> FALSE]
        /\ writer_up = [i \in Clients |-> TRUE]
        /\ tasks = [i \in Clients |-> {}]
        /\ aggregated = [i \in Clients |-> << >>]
        /\ written = [i \in Clients |-> << >>]
        /\ ncmd = 0
        /\ line = [i \in Clients |-> IF i = 1 THEN l ELSE << >>]
        /\ guards = [i \in Clients |-> {}]

NextUser ==
    \E i \in Clients :
        \/ UserRequest(i)
        \/ ClearLine(i)
        \/ WriteDirect(i)

SpecUser == InitUser /\ [][NextUser]_vars

\* ------------------------------------------- PRIVMSG with a list of targets
\* The targets of a PRIVMSG (MessageTo): a channel name, a nickname, or one of
\* the forms handle_privmsg names without handling them
Unhandled == {"NickUserHost", "UserHostServer", "UserHost", "TargetMask"}

Targets ==
    [kind : {"ChannelName"}, to : ChanNames]
        \cup [kind : {"Nickname"}, to : Nicks]
        \cup [kind : Unhandled, to : {0}]

\* handle_privmsg up to its loop: get_caracs and the two unwrap()s, which
\* panic for a session without nick or user.  The serial of the command
\* stands for its text.
PrivmsgStart(i, msgtarget) ==
    /\ ReadLine(i)
    /\ IF user_nick[i] = NoNick \/ ~user_user[i]
         THEN /\ pc' = [pc EXCEPT ![i] = "dead"]
              /\ UNCHANGED loc
         ELSE /\ pc' = [pc EXCEPT ![i] = "privmsg"]
              /\ loc' = [loc EXCEPT ![i] = [targets |-> msgtarget, serial |-> ncmd]]
    /\ UNCHANGED << regVars, userVars, chanVars, rxVars, outbound, writerVars >>

\* handle_privmsg, one turn of `for target in msgtarget`: the broadcast to a
\* channel of the registry, the send to the session of a nickname, or the
\* error! log line of the other arms; after the last target the handler
\* returns
PrivmsgTarget(i) ==
    /\ pc[i] = "privmsg"
    /\ LET target == Head(loc[i].targets)
           serial == loc[i].serial
       IN  /\ IF target.kind = "ChannelName" /\ channels[target.to] # NoObj
                THEN /\ rx' = broadcast_message(channels[target.to],
                                                Msg("PRIVMSG", i, target.to, serial))
                     /\ sent' = sent \cup {Sent(channels[target.to],
                                                Msg("PRIVMSG", i, target.to, serial))}
                ELSE UNCHANGED << rx, sent >>
           /\ IF target.kind = "Nickname" /\ nick[target.to] # NoClient
                 /\ nick[target.to] \in users
                THEN /\ CanSend(nick[target.to])
                     /\ outbound' = Enqueue(outbound, nick[target.to],
                                            Msg("PRIVMSG_NICK", i, target.to, serial))
                ELSE UNCHANGED outbound
    /\ IF Tail(loc[i].targets) = << >>
         THEN /\ pc' = [pc EXCEPT ![i] = "idle"]
              /\ loc' = [loc EXCEPT ![i] = NoLoc]
         ELSE /\ loc' = [loc EXCEPT ![i].targets = Tail(@)]
              /\ UNCHANGED pc
    /\ UNCHANGED << regVars, userVars, chanVars, has_rx, writerVars, ncmd, line, guards >>

\* NumTalkers registered sessions that send PRIVMSG to one to MaxTargets
\* targets
InitPrivmsg == ActiveInit(1..NumTalkers, MaxPrivmsgCmds)

NextPrivmsg ==
    \E i \in Clients :
        \/ \E msgtarget \in SeqsUpTo(Targets, MaxTargets) : PrivmsgStart(i, msgtarget)
        \/ PrivmsgTarget(i)

SpecPrivmsg == InitPrivmsg /\ [][NextPrivmsg]_vars

\* ================================================================== claims
Quiet(i) == pc[i] \in {"none", "idle", "closed", "dead"}

InRegistry(o) == \E c \in ChanNames : channels[c] = o

\* two sessions are members of one channel of the registry
SharesChannel(i, j) ==
    \E o \in Objs : InRegistry(o) /\ i \in members[o] /\ j \in members[o]

\* the QUIT of session i has been carried out to its end
QuitProcessed(i) == pc[i] = "closed" /\ i \notin users

\* position of the first occurrence of line m in q, 0 when it is not there
RECURSIVE Pos(_, _)
Pos(q, m) ==
    IF q = << >> THEN 0
    ELSE IF Head(q) = m THEN 1
    ELSE IF Pos(Tail(q), m) = 0 THEN 0 ELSE 1 + Pos(Tail(q), m)

\* connection i has written both lines
WroteBoth(i, m1, m2) == Pos(written[i], m1) > 0 /\ Pos(written[i], m2) > 0

\* the kinds of line that reach a connection through a channel's broadcast;
\* every other line goes through the connection's direct outbound queue
IsBroadcastLine(m) == m.kind \in {"JOIN", "PRIVMSG"}

IsDirectLine(m) == ~IsBroadcastLine(m)

IsPrefix(a, b) == Len(a) <= Len(b) /\ SubSeq(b, 1, Len(a)) = a

\* the direct lines connection i has written, followed by those still queued
DirectLines(i) == SelectSeq(written[i], IsDirectLine) \o outbound[i]

IsWelcome(m) == m.kind = "001"

\* number of 001 welcomes sent to connection i so far that are written or
\* still queued
Welcomes(i) == Len(SelectSeq(written[i] \o outbound[i], IsWelcome))

IsNotRegistered(m) == m.kind = "451"

RECURSIVE CountIn(_, _)
CountIn(q, m) ==
    IF q = << >> THEN 0
    ELSE (IF Head(q) = m THEN 1 ELSE 0) + CountIn(Tail(q), m)

\* the command MODE <nick> +i
ModePlusI == << [sign |-> "+", flags |-> << "i" >>] >>

\* the status of session i as its connection loop sees it
SessionStatus(i) == IF registered[i] THEN "Active" ELSE "Handshaking"

\* C1: no two sessions of the session index that have completed registration
\* hold the same nickname.
C1_UniqueNicknames ==
    \A i, j \in users :
        (i # j /\ registered[i] /\ registered[j]) => user_nick[i] # user_nick[j]

\* C2: whenever no handler is executing for connection i, for every channel of
\* the registry, i is in its members iff its name is in member_of of session i.
C2_MembersMatchMemberOf ==
    \A i \in users :
        Quiet(i) =>
            \A c \in ChanNames :
                channels[c] # NoObj =>
                    (i \in members[channels[c]] <=> c \in member_of[i])

\* C3: when no handler is running, every entry nick -> id of the nickname
\* index names a session of the session index whose nickname is nick.
C3_NickIndexNamesSessions ==
    (\A i \in Clients : Quiet(i)) =>
        \A n \in Nicks :
            nick[n] # NoClient => (nick[n] \in users /\ user_nick[nick[n]] = n)

\* C4: whenever no JOIN or QUIT handler is in progress, every channel of the
\* registry has at least one member.
C4_NoEmptyChannel ==
    (\A i \in Clients : Quiet(i)) =>
        \A c \in ChanNames : channels[c] # NoObj => members[channels[c]] # {}

\* C4 witness: the last member of a channel has quit, its handler is over and
\* the channel is gone from the registry while another channel remains.
C4_Witness ==
    /\ \A i \in Clients : Quiet(i)
    /\ \E i \in Clients : pc[i] = "closed" /\ i \notin users /\ member_of[i] # {}
    /\ \E c \in ChanNames : channels[c] = NoObj
    /\ \E c \in ChanNames : channels[c] # NoObj

\* C5: for every channel of the registry, operators is a subset of members;
\* stated for the states in which no handler is in progress, where a departed
\* member has been removed from members for good.
C5_OperatorsAreMembers ==
    (\A i \in Clients : Quiet(i)) =>
        \A c \in ChanNames :
            channels[c] # NoObj =>
                operators[channels[c]] \subseteq members[channels[c]]

\* C6: in the step in which a quitting session i relays its QUIT, exactly one
\* relay is enqueued to every other session sharing a channel with i, and none
\* to i or to a session sharing no channel with i.
C6_OneQuitRelayPerNeighbour ==
    [][\A i \in Clients :
          (pc[i] = "quit_bcast" /\ pc'[i] = "quit_loop") =>
              \A j \in Clients :
                  CountIn(outbound'[j], Msg("QUIT", i, 0, 0))
                    - CountIn(outbound[j], Msg("QUIT", i, 0, 0))
                  = IF j # i /\ j \in users /\ SharesChannel(i, j) THEN 1 ELSE 0]_vars

\* C7: once the QUIT of a session has been processed, the session is in no
\* index: not in users, no nickname maps to it, no channel has it as member.
C7_QuitLeavesNoTrace ==
    \A i \in Clients :
        QuitProcessed(i) =>
            /\ \A n \in Nicks : nick[n] # i
            /\ \A o \in Objs : i \notin members[o]

\* C8: a registered session whose reader has stopped (end of input, read
\* error) or whose writer has stopped (write error) is unregistered as for
\* QUIT: it is not in users and not a member of any channel.
C8_TransportErrorUnregisters ==
    \A i \in Clients :
        (registered[i] /\ (pc[i] = "closed" \/ ~writer_up[i])) =>
            /\ i \notin users
            /\ \A o \in Objs : i \notin members[o]

\* C9: a PRIVMSG that session i sent to a channel is never written to the
\* connection of i.
C9_NoEcho ==
    \A i \in Clients :
        \A k \in 1..Len(written[i]) :
            written[i][k].kind = "PRIVMSG" => written[i][k].src # i

\* C10: every session that was a member of the channel when a message was
\* broadcast has it written to its connection at most once, and exactly once
\* as soon as its handler is over, its writer is running and nothing is left
\* in its control queue, its receiver and its aggregated queue (the code sends
\* no warning of lagged delivery to a client).
C10_MembersReceiveBroadcast ==
    \A b \in sent :
        \A j \in b.mem :
            /\ CountIn(written[j], b.m) <= 1
            /\ ( /\ Quiet(j)
                 /\ writer_up[j]
                 /\ control[j] = << >>
                 /\ rx[j][b.o] = << >>
                 /\ aggregated[j] = << >> )
                   => CountIn(written[j], b.m) = 1

\* C11: for two messages broadcast on one channel object and two connections
\* that have both written both of them, the two connections wrote them in the
\* same relative order.
C11_SameOrderForAllMembers ==
    \A b1, b2 \in sent :
        (b1.o = b2.o /\ b1.m # b2.m) =>
            \A i, j \in Clients :
                (WroteBoth(i, b1.m, b2.m) /\ WroteBoth(j, b1.m, b2.m)) =>
                    ( Pos(written[i], b1.m) < Pos(written[i], b2.m)
                      <=> Pos(written[j], b1.m) < Pos(written[j], b2.m) )

\* C11 witness: two different connections have both written the same two
\* messages of one channel object.
C11_Witness ==
    \E b1, b2 \in sent :
        /\ b1.o = b2.o /\ b1.m # b2.m
        /\ \E i, j \in Clients :
               i # j /\ WroteBoth(i, b1.m, b2.m) /\ WroteBoth(j, b1.m, b2.m)

\* C12: as long as the writer of a connection is running, the direct lines it
\* has written followed by the lines still in its outbound queue change only
\* by a new line at the end: lines are written in the order they were
\* enqueued, none is skipped and none is written twice.
C12_DirectFifo ==
    [][\A i \in Clients :
          (writer_up[i] /\ writer_up'[i]) =>
              /\ IsPrefix(DirectLines(i), DirectLines(i)')
              /\ IsPrefix(SelectSeq(written[i], IsDirectLine),
                          SelectSeq(written'[i], IsDirectLine))]_vars

\* C12 witness: a joiner has written the first two replies to its JOIN, in
\* the order they were enqueued, while the third is still in its queue.
C12_Witness ==
    \E i \in Clients \ {Creator} : \E c \in ChanNames :
        /\ writer_up[i]
        /\ Pos(written[i], Msg("331", i, c, 0)) > 0
        /\ Pos(written[i], Msg("353", i, c, 0)) > Pos(written[i], Msg("331", i, c, 0))
        /\ outbound[i] = << Msg("366", i, c, 0) >>

\* C13: a connection that has written a reply to its own JOIN of a channel
\* (RPL_NOTOPIC, RPL_NAMREPLY or RPL_ENDOFNAMES) has written its own JOIN relay
\* of that channel before it.
C13_JoinRelayBeforeReplies ==
    \A i \in Clients : \A c \in ChanNames : \A k \in {"331", "353", "366"} :
        Pos(written[i], Msg(k, i, c, 0)) > 0 =>
            /\ Pos(written[i], Msg("JOIN", i, c, 0)) > 0
            /\ Pos(written[i], Msg("JOIN", i, c, 0)) < Pos(written[i], Msg(k, i, c, 0))

\* C14: a JOIN of a channel by a session that is already a member of the
\* channel the registry holds under that name changes nothing: from the step
\* that looks the channel up to the step that ends the handler, the registry,
\* the channel's members and operators, the session's member_of, its
\* subscriptions, its queues and the broadcast history stay as they are, and
\* the session stays a member meanwhile.
C14_SecondJoinIsNoOp ==
    [][\A i \in Clients :
          LET AlreadyIn == pc[i] = "join_add" /\ i \in members[loc[i].o]
              Same == UNCHANGED << channels, chanVars, member_of, has_rx, rx, sent,
                                   control, outbound >>
          IN /\ ( /\ pc[i] = "idle" /\ pc'[i] = "join_add"
                  /\ channels[loc'[i].c] # NoObj
                  /\ i \in members[channels[loc'[i].c]] )
                    => (Same /\ loc'[i].o = channels[loc'[i].c])
             /\ (AlreadyIn /\ pc'[i] = "join_add") => i \in members'[loc'[i].o]
             /\ (AlreadyIn /\ pc'[i] # "join_add") => (pc'[i] = "idle" /\ Same)]_vars

\* C14 witness: one command has been read since the initial state, it was a
\* JOIN by the member of the channel, its handler is over and nothing changed.
C14_Witness ==
    /\ ncmd = MaxActiveCmds - 1
    /\ \A i \in Clients : pc[i] = "idle"
    /\ sent = {}
    /\ members = [o \in Objs |-> IF o \in ChanNames THEN {Creator} ELSE {}]

\* C15: when a session j that holds nickname n sends its first USER while the
\* nickname index maps n to another, registered session i holding n, the USER
\* is refused: j does not become registered, the index still maps n to i, no
\* 001 is enqueued to j and a 433 is.
C15_UserCollisionRejected ==
    [][\A i, j \in Clients :
          ( /\ i # j
            /\ ~user_user[j] /\ user_user'[j]
            /\ user_nick[j] # NoNick
            /\ user_nick[i] = user_nick[j]
            /\ i \in users /\ registered[i]
            /\ nick[user_nick[j]] = i )
          => /\ ~registered'[j]
             /\ nick'[user_nick[j]] = i
             /\ CountIn(outbound'[j], Msg("001", j, 0, user_nick[j]))
                  = CountIn(outbound[j], Msg("001", j, 0, user_nick[j]))
             /\ writer_up[j] =>
                  CountIn(outbound'[j], Msg("433", j, 0, user_nick[j]))
                    = CountIn(outbound[j], Msg("433", j, 0, user_nick[j])) + 1]_vars

\* C16: a session is sent the 001 welcome at most once, and not before both
\* its nickname and its username are set.
C16_WelcomeOnce ==
    \A i \in Clients :
        /\ Welcomes(i) <= 1
        /\ Welcomes(i) > 0 => (user_nick[i] # NoNick /\ user_user[i])

\* C17: for a connection whose reader is between two commands, the session
\* is registered iff its nickname and its username are set, it is in the
\* session index and the nickname index maps its nickname to it.
C17_ActiveIffIndexed ==
    \A i \in Clients :
        pc[i] = "idle" =>
            ( registered[i] <=>
                ( /\ user_nick[i] # NoNick
                  /\ user_user[i]
                  /\ i \in users
                  /\ nick[user_nick[i]] = i ) )

\* C18: a JOIN or a PRIVMSG read from a session that is not registered is
\* answered with one 451, creates no channel, changes no membership, delivers
\* nothing to another session, and leaves the reader ready for the next line.
C18_NotRegisteredRefused ==
    [][\A i \in Clients :
          ( /\ ~registered[i]
            /\ \/ \E c \in ChanNames : JoinGetOrCreate(i, c)
               \/ \E c \in ChanNames : PrivmsgChannel(i, c)
               \/ \E n \in Nicks : PrivmsgNick(i, n) )
          => /\ pc'[i] = "idle"
             /\ writer_up[i] =>
                  Len(SelectSeq(outbound'[i], IsNotRegistered))
                    = Len(SelectSeq(outbound[i], IsNotRegistered)) + 1
             /\ UNCHANGED << channels, chanVars, member_of, rx, sent >>
             /\ \A j \in Clients \ {i} : outbound'[j] = outbound[j]]_vars

\* C19: the outcome of a JOIN by a registered session is decided in this
\* order: ChannelIsFull when a user limit is set and the member count has
\* reached it; else BannedFromChan when the joiner is in ban_list and not in
\* except_list; else InviteOnlyChan when the channel is invite-only and the
\* joiner is not in invite_exceptions (it is never invited); else
\* BadChannelKey when a key is set and the supplied key differs from it; else
\* AlreadyMember, with nothing changed, when the joiner is a member; else
\* NewJoin, with the joiner added to members.  A refusal is seen as its
\* numeric enqueued to the joiner and an unchanged membership.
C19_JoinChecksInOrder ==
    [][\A i \in Clients :
          /\ \A c \in ChanNames : \A key \in SuppliedKeys :
                (registered[i] /\ JoinStart(i, c, key)) =>
                    LET o == IF channels[c] = NoObj THEN next_obj + 1 ELSE channels[c]
                        m == modes[o]
                        Refused(num) ==
                            /\ pc'[i] = "idle"
                            /\ members' = members
                            /\ CountIn(outbound'[i], Msg(num, i, c, 0))
                                 = CountIn(outbound[i], Msg(num, i, c, 0)) + 1
                    IN IF \E l \in m.user_limit : Cardinality(members[o]) >= l
                         THEN Refused("471")
                       ELSE IF i \in m.ban_list \ m.except_list
                         THEN Refused("474")
                       ELSE IF m.invite_only /\ i \notin m.invite_exceptions
                         THEN Refused("473")
                       ELSE IF \E k \in m.key : key # Some(k)
                         THEN Refused("475")
                       ELSE /\ pc'[i] = "join_add"
                            /\ loc'[i].o = o
                            /\ outbound' = outbound
          /\ (pc[i] = "join_add" /\ pc'[i] # "join_add") =>
                IF i \in members[loc[i].o]
                  THEN pc'[i] = "idle" /\ members' = members
                  ELSE /\ pc'[i] = "join_sub"
                       /\ members' = [members EXCEPT ![loc[i].o] = @ \cup {i}]]_vars

\* C19 witness: under one setting of the modes, one joiner has been refused
\* as banned and another for its key.
C19_Witness ==
    \E i, j \in Clients : \E c \in ChanNames :
        /\ i # j
        /\ CountIn(outbound[i], Msg("474", i, c, 0)) > 0
        /\ CountIn(outbound[j], Msg("475", j, c, 0)) > 0

\* C20: when sessions JOIN names that do not exist yet and no session leaves,
\* every name gets at most one channel object; a session is added to the
\* operators of an object only in the JOIN in which it created that object,
\* and only as its first operator; an object never has two operators, and
\* once no JOIN is in progress every object created has exactly one.
C20_OneObjectOneOperator ==
    [][/\ \A o1, o2 \in 1..next_obj' : obj_name'[o1] = obj_name'[o2] => o1 = o2
       /\ \A j \in Clients :
             (loc'[j].is_new /\ ~loc[j].is_new) =>
                 /\ channels[loc'[j].c] = NoObj
                 /\ next_obj' = next_obj + 1
                 /\ loc'[j].o = next_obj'
       /\ \A o \in Objs : \A j \in operators'[o] \ operators[o] :
             /\ operators[o] = {}
             /\ pc[j] = "join_add" /\ loc[j].is_new /\ loc[j].o = o
       /\ \A o \in 1..next_obj' :
             /\ Cardinality(operators'[o]) <= 1
             /\ (\A i \in Clients : Quiet(i)') => Cardinality(operators'[o]) = 1]_vars

\* C20 witness: two sessions are in their JOIN of the same new channel at the
\* same time, both are members already, and one of them is its operator.
C20_Witness ==
    \E i, j \in Clients :
        /\ i # j
        /\ pc[i] = "join_sub" /\ pc[j] = "join_sub"
        /\ loc[i].o = loc[j].o
        /\ loc[i].is_new
        /\ operators[loc[i].o] = {i}
        /\ {i, j} \subseteq members[loc[i].o]

\* C21: a session that joins a channel found in the registry (the channel was
\* not created by this JOIN, so it kept other members while the session was
\* away) is not an operator of it after the join; only a JOIN that creates
\* the channel leaves the joiner operator.
C21_RejoinIsNotOperator ==
    [][\A i \in Clients :
          (JoinAdd(i) /\ ~loc[i].is_new /\ i \notin members[loc[i].o])
              => i \notin operators'[loc[i].o]]_vars

\* C22: in the step in which an Active session i relays its change of
\* nickname, every other session sharing a channel with i gets exactly one
\* NICK relay with the old and the new nickname at the end of its outbound
\* queue, and the outbound queue of i itself is left as it was.
C22_NickRelayToOthersOnly ==
    [][\A i \in Clients :
          NickRelay(i) =>
              /\ \A j \in Clients \ {i} :
                     SharesChannel(i, j) =>
                         outbound'[j] = Append(outbound[j],
                                            Msg("NICK", i, loc[i].old, loc[i].n))
              /\ outbound'[i] = outbound[i]]_vars

\* C23: when an Active session i sends NICK with a nickname that the nickname
\* index holds, the handler ends in that step: 433 is appended to the outbound
\* queue of i, no other queue changes (no NICK relay), and the nickname of
\* every session and the nickname index are unchanged.
C23_NickInUseChangesNothing ==
    [][\A i \in Clients : \A n \in Nicks :
          (NickCheck(i, n) /\ registered[i] /\ nick[n] # NoClient) =>
              /\ outbound' = [outbound EXCEPT ![i] = Append(@, Msg("433", i, 0, n))]
              /\ user_nick' = user_nick
              /\ nick' = nick
              /\ pc'[i] = "idle"]_vars

C23_Witness ==
    \E i \in Clients : \E n \in Nicks :
        /\ registered[i]
        /\ nick[n] # NoClient
        /\ CountIn(outbound[i], Msg("433", i, 0, n)) > 0

\* C24: a user MODE command (the only step that changes a session's modes
\* here) never adds 'o' or 'O' to the modes of the session and never removes
\* 'r' from them, and sends no reply about it.
C24_NoSelfOpNoUnrestrict ==
    [][\A i \in Clients :
          user_modes'[i] # user_modes[i] =>
              /\ "o" \in user_modes'[i] => "o" \in user_modes[i]
              /\ "O" \in user_modes'[i] => "O" \in user_modes[i]
              /\ "r" \in user_modes[i] => "r" \in user_modes'[i]
              /\ outbound' = outbound]_vars

\* C25: when a registered session i sends a user MODE command (here +i) whose
\* target nickname n is not its own, its modes are unchanged and one
\* ERR_USERSDONTMATCH (502) is appended to its outbound queue.
C25_UsersDontMatchReplied ==
    [][\A i \in Clients : \A n \in Nicks :
          (registered[i] /\ n # user_nick[i] /\ Mode(i, n, ModePlusI)) =>
              /\ user_modes' = user_modes
              /\ outbound'[i] = Append(outbound[i], Msg("502", i, 0, n))]_vars

\* C26: in the step in which the writer task of session i takes Leaving from
\* its status channel and terminates, the direct outbound queue of i is empty:
\* every direct message enqueued before the signal has been written.
C26_LeavingFlushesDirect ==
    [][\A i \in Clients : WriterLeaving(i) => outbound[i] = << >>]_vars

\* C27: when the direct outbound queue of a session j is full while its writer
\* task runs, a PRIVMSG of another session i to the nickname of j can be
\* handled at once: the handler does not wait, j is closed, and i is ready for
\* its next line.
C27_FullQueueDoesNotBlock ==
    \A i \in Clients : \A n \in Nicks :
        ( /\ pc[i] = "idle" /\ ncmd > 0
          /\ user_nick[i] # NoNick /\ user_user[i]
          /\ nick[n] \notin {NoClient, i} /\ nick[n] \in users
          /\ writer_up[nick[n]]
          /\ Len(outbound[nick[n]]) = OUTBOUND_CHANNEL_SIZE )
        => ENABLED (PrivmsgNick(i, n) /\ ~writer_up'[nick[n]] /\ pc'[i] = "idle")

\* C28: the steps of the QUIT of session i change the channels in this way
\* only: i is taken out of the members of a channel it was in, the modes and
\* every other channel staying as they were; the channel is kept when the
\* emptiness test finds other members; and a name is removed from the registry
\* only if it is one i was in and the channel under it has no member.
C28_QuitFrame ==
    [][\A i \in Clients :
          /\ \A c \in ChanNames :
                 (QuitRemoveMember(i, c) /\ channels[c] # NoObj) =>
                     /\ c \in member_of[i]
                     /\ members' = [members EXCEPT ![channels[c]] = @ \ {i}]
                     /\ modes' = modes /\ channels' = channels
          /\ QuitCheckEmpty(i) =>
                 /\ members' = members /\ modes' = modes /\ channels' = channels
                 /\ (pc'[i] = "quit_del") <=> (members[loc[i].o] = {})
          /\ QuitDelete(i) =>
                 /\ members' = members /\ modes' = modes
                 /\ loc[i].c \in member_of[i]
                 /\ channels' = [channels EXCEPT ![loc[i].c] = NoObj]
                 /\ channels[loc[i].c] # NoObj =>
                        members[channels[loc[i].c]] = {}
          /\ (QuitRemoveUser(i) \/ QuitBroadcast(i) \/ QuitLeave(i)) =>
                 /\ members' = members /\ modes' = modes /\ channels' = channels
      ]_vars

\* C29: once a connected session, registered or not, has had its QUIT taken
\* (it is out of the session index), its reader task stops and its writer
\* task terminates eventually.
C29_QuitClosesConnection ==
    \A i \in Clients :
        (pc[i] # "none" /\ i \notin users)
            ~> (pc[i] \in {"closed", "dead"} /\ ~writer_up[i])

\* C30: a line of session i that matches no command grammar appends exactly
\* one 421 to the outbound queue of i, with nick field "*" when i has not
\* registered and the nickname of i otherwise, changes no other queue, and the
\* status the handler returns is the status of i before the line.
C30_UnknownCommandKeepsStatus ==
    [][\A i \in Clients :
          Unknown(i) =>
              /\ outbound' = [outbound EXCEPT ![i] =
                     Append(@, Msg("421", i, 0,
                                   IF registered[i] THEN user_nick[i] ELSE Star))]
              /\ IrcUnknownCommand_status(i) = SessionStatus(i)]_vars

\* The first parameter of a request: what follows the first space, up to the
\* next space or the end
FirstParam(s) ==
    LET a == CHOOSE k \in 1..(Len(s) + 1) :
                 (k = Len(s) + 1 \/ s[k] = " ") /\ \A h \in 1..(k - 1) : s[h] # " "
        b == CHOOSE k \in (a + 1)..(Len(s) + 1) :
                 (k = Len(s) + 1 \/ s[k] = " ") /\ \A h \in (a + 1)..(k - 1) : s[h] # " "
    IN  IF a > Len(s) THEN << >> ELSE SubSeq(s, a + 1, b - 1)

\* hostname = shortname *( "." shortname ), a shortname being letters, digits
\* and inner hyphens
IsHostname(t) ==
    /\ Len(t) \in 1..63
    /\ \A k \in 1..Len(t) : t[k] \in Alphanumeric \cup {"-", "."}
    /\ t[1] \in Alphanumeric /\ t[Len(t)] \in Alphanumeric
    /\ \A k \in 2..(Len(t) - 1) :
           t[k] = "." => t[k - 1] \in Alphanumeric /\ t[k + 1] \in Alphanumeric

\* ip4addr = 1*3digit "." 1*3digit "." 1*3digit "." 1*3digit
IsIp4addr(t) ==
    \E a, b, c \in 1..Len(t) :
        /\ a < b /\ b < c /\ c < Len(t)
        /\ \A k \in 1..Len(t) : IF k \in {a, b, c} THEN t[k] = "." ELSE t[k] \in Digit
        /\ a - 1 \in 1..3 /\ b - a - 1 \in 1..3 /\ c - b - 1 \in 1..3
        /\ Len(t) - c \in 1..3

IsValidHost(t) == IsHostname(t) \/ IsIp4addr(t)

\* the lines session i was sent and those already written to its socket
Received(i) == written[i] \o outbound[i]

\* C31: once a PING whose first parameter is a syntactically valid host has
\* been handled, its sender has been sent exactly one PONG, naming that
\* parameter, and no 421
C31_PingValidHostPong ==
    \A i \in Clients :
        (pc[i] = "handled" /\ IsValidHost(FirstParam(trim(line[i])))) =>
            /\ Cardinality({k \in 1..Len(Received(i)) : Received(i)[k].kind = "PONG"}) = 1
            /\ \A k \in 1..Len(Received(i)) :
                   /\ Received(i)[k].kind = "PONG" =>
                          Received(i)[k].destination = FirstParam(trim(line[i]))
                   /\ Received(i)[k].kind # "421"

\* a PING naming an IPv4 address has been answered
C31_Witness ==
    \E i \in Clients :
        /\ pc[i] = "handled"
        /\ IsIp4addr(FirstParam(trim(line[i])))
        /\ \E k \in 1..Len(Received(i)) : Received(i)[k].kind = "PONG"

\* nickname = ( letter / special ) *8( letter / digit / special / "-" )
IsNickname(t) ==
    /\ Len(t) \in 1..9
    /\ t[1] \in Alphabetic \cup Special
    /\ \A k \in 2..Len(t) : t[k] \in Alphanumeric \cup Special \cup {"-"}

\* C32: nickname_parser accepts a whole string exactly when its first
\* character is a letter or a special, every following character is a letter,
\* a digit, a special or '-', and it is at most 9 characters long
C32_NicknameGrammar ==
    \A i \in Clients :
        pc[i] = "handled" =>
            (loc[i].rest = Len(line[i]) + 1 <=> IsNickname(line[i]))

\* a nickname of nine characters has been accepted whole
C32_Witness ==
    \E i \in Clients :
        /\ pc[i] = "handled"
        /\ Len(line[i]) = 9
        /\ IsNickname(line[i])
        /\ loc[i].rest = Len(line[i]) + 1

\* The numeric RFC 2812 assigns to each kind of reply
Assigned(k) ==
    CASE k = "001" -> 1
      [] k = "221" -> 221
      [] k = "331" -> 331
      [] k = "332" -> 332
      [] k = "353" -> 353
      [] k = "366" -> 366
      [] k = "403" -> 403
      [] k = "421" -> 421
      [] k = "433" -> 433
      [] k = "442" -> 442
      [] k = "451" -> 451
      [] k = "461" -> 461
      [] k = "471" -> 471
      [] k = "473" -> 473
      [] k = "474" -> 474
      [] k = "475" -> 475
      [] k = "501" -> 501
      [] k = "502" -> 502

\* the reply kinds among the lines the sessions were sent
RepliesSent ==
    ReplyKinds \cap
        UNION { { Received(i)[k].kind : k \in 1..Len(Received(i)) } : i \in Clients }

\* C33: every reply a session was sent carries the numeric assigned to its
\* kind, and no two replies of different kinds carry the same numeric
C33_ReplyNumerics ==
    /\ \A k \in RepliesSent : IrcReply_format(k) = Assigned(k)
    /\ \A k, h \in RepliesSent : k # h => IrcReply_format(k) # IrcReply_format(h)

\* C34: while the nickname change of a registered session is in progress, the
\* old or the new nickname resolves to it in the nickname index
C34_NickChangeKeepsReachable ==
    \A i \in Clients :
        (registered[i] /\ pc[i] \in {"nick_insert", "nick_relay"}) =>
            nick[loc[i].old] = i \/ nick[loc[i].n] = i

\* C35: once the handlers have returned, a session that joined a channel and
\* has not quit is a member of the channel object the registry holds under
\* that name, and of no object of that name that is out of the registry
C35_JoinerInRegistryChannel ==
    (\A j \in Clients : Quiet(j)) =>
        \A i \in users : \A c \in member_of[i] :
            /\ channels[c] # NoObj
            /\ i \in members[channels[c]]
            /\ \A o \in Objs : (obj_name[o] = c /\ i \in members[o]) => channels[c] = o

\* the handler of connection i is waiting in an await of the NewJoin arm: a
\* send to its outbound queue, or the read lock of a member's session
AtAwait(i) == pc[i] \in {"join_topic", "names_read", "join_names", "join_end"}

\* C36: a handler that is waiting to enqueue, or is suspended in another
\* await, holds no lock guard and no guard of a registry map entry
C36_NoGuardAcrossAwait ==
    \A i \in Clients : AtAwait(i) => guards[i] = {}

\* The numerics of the reasons for which the channel object o denies a JOIN of
\* session i with the supplied key
DenialNumerics(o, i, key) ==
    {"471" : l \in {l \in modes[o].user_limit : Cardinality(members[o]) >= l}}
    \cup (IF i \in modes[o].ban_list \ modes[o].except_list THEN {"474"} ELSE {})
    \cup (IF modes[o].invite_only /\ i \notin modes[o].invite_exceptions
            THEN {"473"} ELSE {})
    \cup (IF modes[o].key # None /\ modes[o].key # key THEN {"475"} ELSE {})

\* C37: a JOIN of a registered session that the channel denies enqueues one
\* numeric to the joiner, that of a reason that applies, and changes nothing
\* else: no relay, no subscription, the same members, operators and member_of
C37_DeniedJoinOnlyReplies ==
    [][\A i \in Clients : \A c \in ChanNames : \A key \in SuppliedKeys :
          ( /\ JoinStart(i, c, key)
            /\ registered[i]
            /\ channels[c] # NoObj
            /\ DenialNumerics(channels[c], i, key) # {} ) =>
              /\ \E num \in DenialNumerics(channels[c], i, key) :
                     outbound' = [outbound EXCEPT ![i] = Append(@, Msg(num, i, c, 0))]
              /\ UNCHANGED << members, operators, member_of, rx, has_rx, sent,
                              control, channels, pc >>]_vars

\* a session has been refused a full channel: it holds the 471 for it, and is
\* neither a member of the channel nor has it in member_of
C37_Witness ==
    \E i \in Clients : \E c \in ChanNames :
        /\ \E k \in 1..Len(outbound[i]) : outbound[i][k] = Msg("471", i, c, 0)
        /\ channels[c] # NoObj
        /\ i \notin members[channels[c]]
        /\ c \notin member_of[i]

\* The words of a line: what its single spaces separate
RECURSIVE Words(_)
Words(s) ==
    LET a == CHOOSE k \in 1..(Len(s) + 1) :
                 (k = Len(s) + 1 \/ s[k] = " ") /\ \A h \in 1..(k - 1) : s[h] # " "
    IN  IF a > Len(s) THEN << s >>
        ELSE << SubSeq(s, 1, a - 1) >> \o Words(SubSeq(s, a + 1, Len(s)))

\* the line is USER <user> <mode> ... with a mode of decimal digits
IsUserLineWithMode(s) ==
    /\ Len(Words(s)) >= 3
    /\ Words(s)[1] = USER
    /\ Words(s)[3] # << >>
    /\ \A k \in 1..Len(Words(s)[3]) : Words(s)[3][k] \in Digit

\* bit k of b
Bit(b, k) == (b \div (2 ^ k)) % 2 = 1

\* C38: after USER with mode bitmask b in 0..255, the modes of the session are
\* 'w' exactly when bit 2 of b is set and 'i' exactly when bit 3 of b is set,
\* and nothing else
C38_UserModeBits ==
    \A i \in Clients :
        (pc[i] = "handled" /\ IsUserLineWithMode(line[i])
            /\ Decimal(Words(line[i])[3]) \in 0..255) =>
            LET b == Decimal(Words(line[i])[3])
            IN  user_modes[i] = {m \in {"w"} : Bit(b, 2)} \cup {m \in {"i"} : Bit(b, 3)}

\* USER with mode 12 has been handled and has completed the registration: both
\* modes are set
C38_Witness ==
    \E i \in Clients :
        /\ pc[i] = "handled"
        /\ IsUserLineWithMode(line[i])
        /\ Decimal(Words(line[i])[3]) = 12
        /\ registered[i]
        /\ user_modes[i] = {"w", "i"}

\* C39: the turn of handle_privmsg for a target mask, or for another target
\* form that is not implemented, enqueues ERR_NOSUCHNICK to the sender, and
\* the targets after it are still to be processed
C39_UnhandledTargetNoSuchNick ==
    [][\A i \in Clients :
          (PrivmsgTarget(i) /\ Head(loc[i].targets).kind \in Unhandled) =>
              /\ \E k \in 1..Len(outbound'[i]) : outbound'[i][k].kind = "401"
              /\ Tail(loc[i].targets) # << >> =>
                     pc'[i] = "privmsg" /\ loc'[i].targets = Tail(loc[i].targets)]_vars

====
